---- MODULE Spec2Model ----
(***************************************************************************)
(* Verification model of modpub: the license registry                      *)
(* (modpub/core/licenses.py), the canonical Design model and its JSON      *)
(* round trip (modpub/core/model.py), the local directory backend          *)
(* (modpub/plugins/localdir/plugin.py) and the Thingiverse backend         *)
(* (modpub/plugins/thingiverse/plugin.py, api.py).                         *)
(*                                                                         *)
(* Python strings are TLA+ strings; character-level operations (strip,     *)
(* lower, find, slicing) are computed with Len, SubSeq and \o.  An         *)
(* Optional[T] value is a sequence of length at most one: <<>> is None     *)
(* and <<v>> is the value v.                                               *)
(***************************************************************************)
EXTENDS Integers, Sequences, FiniteSets, TLC

VARIABLES
    CANONICAL,          \* _CANONICAL: input name -> License
    PLATFORM_OUTBOUND,  \* _PLATFORM_OUTBOUND: platform -> (canonical key -> platform id)
    PLATFORM_INBOUND,   \* _PLATFORM_INBOUND: platform -> (platform id -> canonical key)
    regLog,             \* the platform registration calls made so far, in order
    catalogLog,         \* the register_canonical_license calls made so far, in order
    nOps,               \* number of registry operations invoked so far
    lastOp,             \* the last registration operation invoked, with its arguments
    afterFirst,         \* the tables as the first application left them, while it is repeated
    fs,                 \* the file system: the files with their content, the directories
    sent,               \* the requests sent to the platform, in order, each with its answer
    call,               \* the last call made: its name and arguments
    ret                 \* what that call returned or raised

licVars == <<CANONICAL, PLATFORM_OUTBOUND, PLATFORM_INBOUND, regLog, catalogLog, nOps, lastOp,
            afterFirst>>
callVars == <<call, ret>>
fsVars == <<fs>>
netVars == <<sent>>
vars == <<CANONICAL, PLATFORM_OUTBOUND, PLATFORM_INBOUND, regLog, catalogLog, nOps, lastOp,
          afterFirst, fs, sent, call, ret>>

----------------------------------------------------------------------------
(* Bounds of the model *)

\* registry operations per behaviour of the registry specification
MaxRegOps == 2
\* registry operations per behaviour of the catalog specification
MaxCatalogOps == 2
\* length of the file list and of the image list of a Design put through JSON
MaxJsonAssets == 2
\* length of the file list and of the image list of a Design written to a directory
MaxLocalAssets == 2
\* number of pieces a README text given to the parser is made of
MaxReadmePieces == 3
\* number of lines of a README text with headings given to the parser
MaxHeadingLines == 3
\* length of the file list of a Design written to a directory more than once
MaxRewriteAssets == 2
\* length of the file list of a Design written to the platform
MaxRemoteAssets == 2
\* length of the file list of the metadata.json of a directory that is read
MaxStoredAssets == 2

----------------------------------------------------------------------------
(* modpub/core/model.py: the fields of the dataclasses, in declaration order *)

LicenseFields == <<"key", "name", "url">>
AuthorFields == <<"name", "url", "user_id">>
FileAssetFields == <<"filename", "path", "url", "sha256", "kind", "description">>
ImageAssetFields == <<"filename", "path", "url", "caption", "sha256">>
DerivativeFields == <<"source_url", "source_platform", "source_id">>
DesignFields ==
    <<"title", "description_md", "instructions_md", "tags", "categories", "license", "author",
      "files", "images", "derivatives", "platform", "platform_id", "public_url", "extra">>

----------------------------------------------------------------------------
(* Python values *)

None == <<>>
Some(v) == <<v>>
IsNone(o) == o = <<>>
Val(o) == o[1]

\* dict.get(k): the value, or None
DictGet(d, k) == IF k \in DOMAIN d THEN Some(d[k]) ELSE None
\* d[k] = v
DictSet(d, k, v) == (k :> v) @@ d
EmptyDict == <<>>

----------------------------------------------------------------------------
(* Python str operations *)

Char(s, i) == SubSeq(s, i, i)

\* the characters str.strip() removes, among those the model's inputs use
Whitespace == {" ", "\t", "\n", "\r"}

UpperToLower ==
    ("A" :> "a") @@ ("B" :> "b") @@ ("C" :> "c") @@ ("D" :> "d") @@ ("E" :> "e") @@
    ("F" :> "f") @@ ("G" :> "g") @@ ("H" :> "h") @@ ("I" :> "i") @@ ("J" :> "j") @@
    ("K" :> "k") @@ ("L" :> "l") @@ ("M" :> "m") @@ ("N" :> "n") @@ ("O" :> "o") @@
    ("P" :> "p") @@ ("Q" :> "q") @@ ("R" :> "r") @@ ("S" :> "s") @@ ("T" :> "t") @@
    ("U" :> "u") @@ ("V" :> "v") @@ ("W" :> "w") @@ ("X" :> "x") @@ ("Y" :> "y") @@
    ("Z" :> "z")

LowerChar(c) == IF c \in DOMAIN UpperToLower THEN UpperToLower[c] ELSE c

\* the characters lo..hi of s, each in lower case
RECURSIVE LowerRange(_, _, _)
LowerRange(s, lo, hi) ==
    IF lo > hi THEN ""
    ELSE IF lo = hi THEN LowerChar(Char(s, lo))
    ELSE LET mid == (lo + hi) \div 2 IN
         LowerRange(s, lo, mid) \o LowerRange(s, mid + 1, hi)

\* the string in the letter case it has
AsGiven(s) == s

\* str.lower()
lower(s) == LowerRange(s, 1, Len(s))

\* index (1-based) of the first character of s not in chars, Len(s)+1 if none
FirstNotIn(s, chars) ==
    CHOOSE i \in 1..(Len(s) + 1) :
        /\ (i = Len(s) + 1 \/ Char(s, i) \notin chars)
        /\ \A j \in 1..(i - 1) : Char(s, j) \in chars

\* index (1-based) of the last character of s not in chars, 0 if none
LastNotIn(s, chars) ==
    CHOOSE i \in 0..Len(s) :
        /\ (i = 0 \/ Char(s, i) \notin chars)
        /\ \A j \in (i + 1)..Len(s) : Char(s, j) \in chars

\* str.strip(chars)
strip_chars(s, chars) == SubSeq(s, FirstNotIn(s, chars), LastNotIn(s, chars))
\* str.rstrip(chars)
rstrip_chars(s, chars) == SubSeq(s, 1, LastNotIn(s, chars))
\* str.strip()
strip(s) == strip_chars(s, Whitespace)
\* str.rstrip()
rstrip(s) == rstrip_chars(s, Whitespace)

\* the least element of a non-empty set of integers
Min(S) == CHOOSE i \in S : \A j \in S : i <= j

\* text[s:e], for 0 <= s and e <= len(text)
Slice(text, s, e) == SubSeq(text, s + 1, e)

\* the indices (from 0) at which the non-empty string sub occurs in text
Occurrences(text, sub) ==
    {i \in 0..(Len(text) - Len(sub)) :
        Char(text, i + 1) = Char(sub, 1) /\ Slice(text, i, i + Len(sub)) = sub}

\* text.find(sub, start)
find(text, sub, start) ==
    LET at == {i \in Occurrences(text, sub) : i >= start} IN
    IF at = {} THEN -1 ELSE Min(at)

\* the characters lo..hi of s as a file opened in text mode returns them: "\r\n"
\* and "\r" are read as "\n"
RECURSIVE NewlineRange(_, _, _)
NewlineRange(s, lo, hi) ==
    IF lo > hi THEN ""
    ELSE IF lo = hi THEN
        IF Char(s, lo) = "\r" THEN "\n"
        ELSE IF Char(s, lo) = "\n" /\ lo > 1 /\ Char(s, lo - 1) = "\r" THEN ""
        ELSE Char(s, lo)
    ELSE LET mid == (lo + hi) \div 2 IN
         NewlineRange(s, lo, mid) \o NewlineRange(s, mid + 1, hi)

\* Path.read_text of a file holding s
read_text(s) ==
    IF \A i \in 1..Len(s) : Char(s, i) # "\r" THEN s ELSE NewlineRange(s, 1, Len(s))

----------------------------------------------------------------------------
(* modpub/core/model.py: the dataclasses.  A field of type str holds a string, an *)
(* Optional[str] field None or Some(string), a list field a sequence, an         *)
(* Optional[License] field None or Some(license).                               *)

License(key, name, url) == [key |-> key, name |-> name, url |-> url]
Author(name, url, user_id) == [name |-> name, url |-> url, user_id |-> user_id]
FileAsset(filename, path, url, sha256, kind, description) ==
    [url |-> url, filename |-> filename, path |-> path, sha256 |-> sha256, kind |-> kind,
     description |-> description]
ImageAsset(filename, path, url, caption, sha256) ==
    [url |-> url, filename |-> filename, path |-> path, sha256 |-> sha256, caption |-> caption]
Derivative(source_url, source_platform, source_id) ==
    [source_url |-> source_url, source_platform |-> source_platform, source_id |-> source_id]
Design(title, description_md, instructions_md, tags, categories, license, author, files, images, derivatives, platform, platform_id, public_url, extra) ==
    [title |-> title, description_md |-> description_md, instructions_md |-> instructions_md,
     tags |-> tags, categories |-> categories, license |-> license, author |-> author,
     files |-> files, images |-> images, derivatives |-> derivatives, platform |-> platform,
     platform_id |-> platform_id, public_url |-> public_url, extra |-> extra]

----------------------------------------------------------------------------
(* JSON documents, as json.dumps takes them and json.loads returns them.  A dict *)
(* is the sequence of its <<key, value>> items in insertion order.               *)

JNull == <<"null">>
JStr(s) == <<"str", s>>
JList(xs) == <<"list", xs>>
JDict(items) == <<"dict", items>>

JOptStr(o) == IF IsNone(o) THEN JNull ELSE JStr(Val(o))
JStrList(xs) == JList([i \in DOMAIN xs |-> JStr(xs[i])])

\* the text json.dumps writes for the document v, and the document json.loads
\* reads from a text
json_dumps(v) == <<"json", v>>
json_loads(s) == s[2]

\* Python truth value of a document
Truthy(j) == j \notin {JNull, JStr(""), JList(<<>>), JDict(<<>>)}

Keys(items) == {items[i][1] : i \in DOMAIN items}
\* dict.get(k, default)
Item(items, k, default) ==
    IF k \in Keys(items)
    THEN items[CHOOSE i \in DOMAIN items :
                   items[i][1] = k /\ \A j \in DOMAIN items : items[j][1] = k => j <= i][2]
    ELSE default

\* the value Python holds for a str, an Optional[str] and a List[str] field
PyStr(j) == IF j[1] = "str" THEN j[2] ELSE j
PyOptStr(j) == IF j = JNull THEN None ELSE Some(PyStr(j))
PyStrList(j) == [i \in DOMAIN j[2] |-> PyStr(j[2][i])]

Range(f) == {f[i] : i \in DOMAIN f}
\* cls(**j) is accepted: j is a dict, every key names a field, no required field lacks
AcceptsKw(j, fields, required) ==
    /\ j[1] = "dict"
    /\ Keys(j[2]) \subseteq Range(fields)
    /\ required \subseteq Keys(j[2])

----------------------------------------------------------------------------
(* modpub/core/model.py: Design.to_json and Design.from_json *)

\* dataclasses.asdict on each dataclass
LicenseAsDict(l) ==
    JDict(<< <<"key", JStr(l.key)>>, <<"name", JOptStr(l.name)>>, <<"url", JOptStr(l.url)>> >>)
AuthorAsDict(a) ==
    JDict(<< <<"name", JStr(a.name)>>, <<"url", JOptStr(a.url)>>,
             <<"user_id", JOptStr(a.user_id)>> >>)
FileAssetAsDict(f) ==
    JDict(<< <<"filename", JStr(f.filename)>>, <<"path", JOptStr(f.path)>>,
             <<"url", JOptStr(f.url)>>, <<"sha256", JOptStr(f.sha256)>>,
             <<"kind", JStr(f.kind)>>, <<"description", JOptStr(f.description)>> >>)
ImageAssetAsDict(im) ==
    JDict(<< <<"filename", JStr(im.filename)>>, <<"path", JOptStr(im.path)>>,
             <<"url", JOptStr(im.url)>>, <<"caption", JOptStr(im.caption)>>,
             <<"sha256", JOptStr(im.sha256)>> >>)
DerivativeAsDict(dv) ==
    JDict(<< <<"source_url", JStr(dv.source_url)>>,
             <<"source_platform", JOptStr(dv.source_platform)>>,
             <<"source_id", JOptStr(dv.source_id)>> >>)
asdict(d) ==
    JDict(<< <<"title", JStr(d.title)>>,
             <<"description_md", JStr(d.description_md)>>,
             <<"instructions_md", JStr(d.instructions_md)>>,
             <<"tags", JStrList(d.tags)>>,
             <<"categories", JStrList(d.categories)>>,
             <<"license", IF IsNone(d.license) THEN JNull ELSE LicenseAsDict(Val(d.license))>>,
             <<"author", IF IsNone(d.author) THEN JNull ELSE AuthorAsDict(Val(d.author))>>,
             <<"files", JList([i \in DOMAIN d.files |-> FileAssetAsDict(d.files[i])])>>,
             <<"images", JList([i \in DOMAIN d.images |-> ImageAssetAsDict(d.images[i])])>>,
             <<"derivatives",
               JList([i \in DOMAIN d.derivatives |-> DerivativeAsDict(d.derivatives[i])])>>,
             <<"platform", JOptStr(d.platform)>>,
             <<"platform_id", JOptStr(d.platform_id)>>,
             <<"public_url", JOptStr(d.public_url)>>,
             <<"extra", JDict(d.extra)>> >>)

\* Design.to_json
to_json(d) == json_dumps(asdict(d))

\* a License rebuilt from the key alone
LicenseFromKey(j) == License(PyStr(Item(j[2], "key", JNull)), None, None)

\* License(**j), Author(**j), FileAsset(**j), ImageAsset(**j), Derivative(**j)
LicenseFromDict(j) ==
    License(PyStr(Item(j[2], "key", JNull)), PyOptStr(Item(j[2], "name", JNull)),
            PyOptStr(Item(j[2], "url", JNull)))
AuthorFromDict(j) ==
    Author(PyStr(Item(j[2], "name", JNull)), PyOptStr(Item(j[2], "url", JNull)),
           PyOptStr(Item(j[2], "user_id", JNull)))
FileAssetFromDict(j) ==
    FileAsset(PyStr(Item(j[2], "filename", JNull)), PyOptStr(Item(j[2], "path", JNull)),
              PyOptStr(Item(j[2], "url", JNull)), PyOptStr(Item(j[2], "sha256", JNull)),
              PyStr(Item(j[2], "kind", JStr("model"))),
              PyOptStr(Item(j[2], "description", JNull)))
ImageAssetFromDict(j) ==
    ImageAsset(PyStr(Item(j[2], "filename", JNull)), PyOptStr(Item(j[2], "path", JNull)),
               PyOptStr(Item(j[2], "url", JNull)), PyOptStr(Item(j[2], "caption", JNull)),
               PyOptStr(Item(j[2], "sha256", JNull)))
DerivativeFromDict(j) ==
    Derivative(PyStr(Item(j[2], "source_url", JNull)),
               PyOptStr(Item(j[2], "source_platform", JNull)),
               PyOptStr(Item(j[2], "source_id", JNull)))

\* what a call returns: a value, or the exception it raises
Ok(v) == <<"ok", v>>
Raise(e) == <<"raise", e>>
IsOk(r) == r[1] = "ok"

\* the elements of for x in j: those of a list; an empty str and an empty dict have none
Elements(j) == IF j[1] = "list" THEN j[2] ELSE <<>>

\* [cls(**x) for x in j] is accepted
AcceptsKwList(j, fields, required) ==
    /\ j[1] = "list" \/ j \in {JStr(""), JDict(<<>>)}
    /\ \A i \in DOMAIN Elements(j) : AcceptsKw(Elements(j)[i], fields, required)

\* Design.from_json
from_json(s) ==
    LET data == json_loads(s)
        items == data[2]
        lic == Item(items, "license", JNull)
        auth == Item(items, "author", JNull)
        filesJ == Item(items, "files", JList(<<>>))
        imagesJ == Item(items, "images", JList(<<>>))
        derivativesJ == Item(items, "derivatives", JList(<<>>))
    IN  IF data[1] # "dict" THEN Raise("AttributeError")
        ELSE IF Truthy(lic) /\ ~AcceptsKw(lic, LicenseFields, {"key"}) THEN Raise("TypeError")
        ELSE IF Truthy(auth) /\ ~AcceptsKw(auth, AuthorFields, {"name"}) THEN Raise("TypeError")
        ELSE IF ~AcceptsKwList(filesJ, FileAssetFields, {"filename"}) THEN Raise("TypeError")
        ELSE IF ~AcceptsKwList(imagesJ, ImageAssetFields, {"filename"}) THEN Raise("TypeError")
        ELSE IF ~AcceptsKwList(derivativesJ, DerivativeFields, {"source_url"})
             THEN Raise("TypeError")
        ELSE IF ~(Keys(items) \subseteq Range(DesignFields) /\ "title" \in Keys(items))
             THEN Raise("TypeError")
        ELSE Ok(Design(
                 PyStr(Item(items, "title", JNull)),
                 PyStr(Item(items, "description_md", JStr(""))),
                 PyStr(Item(items, "instructions_md", JStr(""))),
                 PyStrList(Item(items, "tags", JList(<<>>))),
                 PyStrList(Item(items, "categories", JList(<<>>))),
                 IF lic = JNull THEN None
                 ELSE IF Truthy(lic) THEN Some(LicenseFromDict(lic)) ELSE Some(lic),
                 IF auth = JNull THEN None
                 ELSE IF Truthy(auth) THEN Some(AuthorFromDict(auth)) ELSE Some(auth),
                 [i \in DOMAIN Elements(filesJ) |-> FileAssetFromDict(Elements(filesJ)[i])],
                 [i \in DOMAIN Elements(imagesJ) |-> ImageAssetFromDict(Elements(imagesJ)[i])],
                 [i \in DOMAIN Elements(derivativesJ) |->
                     DerivativeFromDict(Elements(derivativesJ)[i])],
                 PyOptStr(Item(items, "platform", JNull)),
                 PyOptStr(Item(items, "platform_id", JNull)),
                 PyOptStr(Item(items, "public_url", JNull)),
                 Item(items, "extra", JDict(<<>>))[2]))

----------------------------------------------------------------------------
(* modpub/core/licenses.py *)

CC0 == License("CC0-1.0", Some("CC0 1.0 Universal"),
               Some("https://creativecommons.org/publicdomain/zero/1.0/"))
CC_BY == License("CC-BY-4.0", Some("Creative Commons Attribution 4.0"),
                 Some("https://creativecommons.org/licenses/by/4.0/"))
CC_BY_SA == License("CC-BY-SA-4.0", Some("Creative Commons Attribution-ShareAlike 4.0"),
                    Some("https://creativecommons.org/licenses/by-sa/4.0/"))
CC_BY_NC == License("CC-BY-NC-4.0", Some("Creative Commons Attribution-NonCommercial 4.0"),
                    Some("https://creativecommons.org/licenses/by-nc/4.0/"))
CC_BY_ND == License("CC-BY-ND-4.0", Some("Creative Commons Attribution-NoDerivatives 4.0"),
                    Some("https://creativecommons.org/licenses/by-nd/4.0/"))
CC_BY_NC_SA == License("CC-BY-NC-SA-4.0",
                       Some("Creative Commons Attribution-NonCommercial-ShareAlike 4.0"),
                       Some("https://creativecommons.org/licenses/by-nc-sa/4.0/"))
CC_BY_NC_ND == License("CC-BY-NC-ND-4.0",
                       Some("Creative Commons Attribution-NonCommercial-NoDerivatives 4.0"),
                       Some("https://creativecommons.org/licenses/by-nc-nd/4.0/"))
GPL3 == License("GPL-3.0", Some("GNU General Public License v3.0"),
                Some("https://www.gnu.org/licenses/gpl-3.0.en.html"))
LGPL21 == License("LGPL-2.1", Some("GNU Lesser General Public License v2.1"),
                  Some("https://www.gnu.org/licenses/old-licenses/lgpl-2.1.en.html"))
BSD == License("BSD", Some("BSD License"), Some("https://opensource.org/licenses/BSD-3-Clause"))

\* _CANONICAL as the module defines it
CanonicalBuiltin ==
    ("cc0" :> CC0) @@ ("cc0-1.0" :> CC0) @@
    ("cc-by" :> CC_BY) @@ ("cc-by-4.0" :> CC_BY) @@
    ("creative commons - attribution" :> CC_BY) @@
    ("cc-by-sa" :> CC_BY_SA) @@ ("cc-by-sa-4.0" :> CC_BY_SA) @@
    ("creative commons - attribution - share alike" :> CC_BY_SA) @@
    ("cc-by-nc" :> CC_BY_NC) @@ ("cc-by-nc-4.0" :> CC_BY_NC) @@
    ("cc-by-nd" :> CC_BY_ND) @@ ("cc-by-nd-4.0" :> CC_BY_ND) @@
    ("cc-by-nc-sa" :> CC_BY_NC_SA) @@ ("cc-by-nc-sa-4.0" :> CC_BY_NC_SA) @@
    ("cc-by-nc-nd" :> CC_BY_NC_ND) @@ ("cc-by-nc-nd-4.0" :> CC_BY_NC_ND) @@
    ("gpl-3.0" :> GPL3) @@ ("gpl3" :> GPL3) @@
    ("lgpl-2.1" :> LGPL21) @@ ("lgpl" :> LGPL21) @@
    ("bsd license" :> BSD) @@ ("bsd" :> BSD)

\* normalize_license_name(name: Optional[str]) -> Optional[License]
normalize_license_name(name) ==
    IF IsNone(name) \/ Val(name) = "" THEN None
    ELSE DictGet(CANONICAL, lower(strip(Val(name))))

\* a resolution of a License by its name first, then by its key
normalize_license_name_first(lic) ==
    IF lic[1] = "none" THEN None
    ELSE IF lic[1] = "str" THEN
        LET res == normalize_license_name(Some(lic[2])) IN
        IF ~IsNone(res) THEN res ELSE Some(License(lic[2], Some(lic[2]), None))
    ELSE
        LET byName == normalize_license_name(lic[2].name)
            res == IF ~IsNone(byName) THEN byName ELSE normalize_license_name(Some(lic[2].key))
        IN  IF ~IsNone(res) THEN res ELSE Some(lic[2])

\* normalize_license(lic: Optional[License | str]) -> Optional[License];
\* the argument is <<"none">>, <<"str", text>> or <<"License", license>>
normalize_license(lic) ==
    IF lic[1] = "none" THEN None
    ELSE IF lic[1] = "str" THEN
        LET res == normalize_license_name(Some(lic[2])) IN
        IF ~IsNone(res) THEN res ELSE Some(License(lic[2], Some(lic[2]), None))
    ELSE
        LET byKey == normalize_license_name(Some(lic[2].key))
            res == IF ~IsNone(byKey) THEN byKey ELSE normalize_license_name(lic[2].name)
        IN  IF ~IsNone(res) THEN res ELSE Some(lic[2])

\* map_for_platform(license_obj: Optional[License], platform) -> Optional[str]
map_for_platform(license_obj, platform) ==
    IF IsNone(license_obj) THEN None
    ELSE LET table == DictGet(PLATFORM_OUTBOUND, platform) IN
         DictGet(IF IsNone(table) THEN EmptyDict ELSE Val(table), Val(license_obj).key)

\* map_from_platform(platform_license: Optional[str], platform) -> Optional[str]
map_from_platform(platform_license, platform) ==
    IF IsNone(platform_license) \/ Val(platform_license) = "" THEN None
    ELSE LET table == DictGet(PLATFORM_INBOUND, platform) IN
         DictGet(IF IsNone(table) THEN EmptyDict ELSE Val(table),
                 lower(strip(Val(platform_license))))

\* the inbound key as written, without lower-casing
InboundKeyAsGiven(platform_id) == platform_id

\* The key under which a platform id is stored in the inbound table
InboundKey(platform_id) == lower(platform_id)

\* register_platform_license_mapping on the tables t = [out, inb]
register_platform_license_mapping(t, platform, canonical_key, platform_id) ==
    LET out0 == IF platform \notin DOMAIN t.out
                THEN DictSet(t.out, platform, EmptyDict) ELSE t.out
        inb0 == IF platform \notin DOMAIN t.inb
                THEN DictSet(t.inb, platform, EmptyDict) ELSE t.inb
    IN  [out |-> DictSet(out0, platform, DictSet(out0[platform], canonical_key, platform_id)),
         inb |-> DictSet(inb0, platform,
                         DictSet(inb0[platform], InboundKey(platform_id), canonical_key))]

\* register_platform_inbound_mapping on the tables t = [out, inb]
register_platform_inbound_mapping(t, platform, platform_id, canonical_key) ==
    LET inb0 == IF platform \notin DOMAIN t.inb
                THEN DictSet(t.inb, platform, EmptyDict) ELSE t.inb
    IN  [out |-> t.out,
         inb |-> DictSet(inb0, platform,
                         DictSet(inb0[platform], InboundKey(platform_id), canonical_key))]

\* a registration that withdraws the entry when the name is already registered
register_canonical_license_toggle(c, input_name, license_obj) ==
    LET n == lower(strip(input_name)) IN
    IF n \in DOMAIN c THEN [x \in DOMAIN c \ {n} |-> c[x]] ELSE DictSet(c, n, license_obj)

\* register_canonical_license on the catalog c
register_canonical_license(c, input_name, license_obj) ==
    DictSet(c, lower(strip(input_name)), license_obj)

----------------------------------------------------------------------------
(* modpub/plugins/thingiverse/plugin.py: the license registration hook *)

ThingiverseOutbound ==
    << <<"CC0-1.0", "cc-zero">>, <<"CC-BY-4.0", "cc">>, <<"CC-BY-SA-4.0", "cc-sa">>,
       <<"CC-BY-NC-4.0", "cc-nc">>, <<"CC-BY-ND-4.0", "cc-nd">>,
       <<"CC-BY-NC-SA-4.0", "cc-nc-sa">>, <<"CC-BY-NC-ND-4.0", "cc-nc-nd">>,
       <<"GPL-3.0", "gpl">>, <<"LGPL-2.1", "lgpl">>, <<"BSD", "bsd">> >>

ThingiverseInbound ==
    << <<"creative commons - public domain dedication", "CC0-1.0">>,
       <<"creative commons - attribution", "CC-BY-4.0">>,
       <<"creative commons - attribution - share alike", "CC-BY-SA-4.0">>,
       <<"creative commons - attribution - no derivatives", "CC-BY-ND-4.0">>,
       <<"creative commons - attribution - non-commercial", "CC-BY-NC-4.0">>,
       <<"creative commons - attribution - non-commercial - share alike", "CC-BY-NC-SA-4.0">>,
       <<"creative commons - attribution - non-commercial - no derivatives", "CC-BY-NC-ND-4.0">>,
       <<"gnu - gpl", "GPL-3.0">>, <<"gnu - lgpl", "LGPL-2.1">>, <<"bsd license", "BSD">> >>

\* A registration call is <<op, platform, canonical key, platform id, caller>>,
\* op being "both" for register_platform_license_mapping and "inbound" for
\* register_platform_inbound_mapping
RegCall(op, platform, key, id, by) == <<op, platform, key, id, by>>
CallOp(c) == c[1]
CallPlatform(c) == c[2]
CallKey(c) == c[3]
CallId(c) == c[4]
CallBy(c) == c[5]

\* the registration calls of the hook, in the order it makes them
HookCalls ==
    [i \in 1..Len(ThingiverseOutbound) |->
        RegCall("both", "thingiverse", ThingiverseOutbound[i][1], ThingiverseOutbound[i][2],
                "hook")]
    \o
    [i \in 1..Len(ThingiverseInbound) |->
        RegCall("inbound", "thingiverse", ThingiverseInbound[i][2], ThingiverseInbound[i][1],
                "hook")]

\* one registration call applied to the tables t = [out, inb]
ApplyCall(t, c) ==
    IF CallOp(c) = "both"
    THEN register_platform_license_mapping(t, CallPlatform(c), CallKey(c), CallId(c))
    ELSE register_platform_inbound_mapping(t, CallPlatform(c), CallId(c), CallKey(c))

\* the calls i.. of the sequence applied in order, each to the tables the one before
\* it left (the test on u has the call completed before the next one starts)
RECURSIVE ApplyCalls(_, _, _)
ApplyCalls(t, calls, i) ==
    IF i > Len(calls) THEN t
    ELSE LET u == ApplyCall(t, calls[i]) IN
         IF DOMAIN u = {"out", "inb"} THEN ApplyCalls(u, calls, i + 1) ELSE u

\* ThingiversePlugin.register_license_mappings on the tables t = [out, inb]
register_license_mappings(t) == ApplyCalls(t, HookCalls, 1)

----------------------------------------------------------------------------
(* modpub/plugins/localdir/plugin.py: README.md *)

MD_DESC_BEGIN == "<!-- modpub:begin:description -->"
MD_DESC_END == "<!-- modpub:end:description -->"
MD_INSTR_BEGIN == "<!-- modpub:begin:instructions -->"
MD_INSTR_END == "<!-- modpub:end:instructions -->"

\* the heading patterns with the last first
_PRINT_INSTR_HEADINGS_reversed ==
    << <<"printing">>, <<"instructions">>, <<"print", "settings">>,
       <<"print", "instructions">> >>

\* the heading patterns in priority order; each is ^##, then its words, each after
\* \s*, then \s*$
_PRINT_INSTR_HEADINGS ==
    << <<"print", "instructions">>, <<"print", "settings">>, <<"instructions">>,
       <<"printing">> >>

\* the README with the description and the instructions put in as they are given
_render_readme_unstripped(title, description, instructions) ==
    (IF title # "" THEN "# " \o title \o "\n" \o "\n" ELSE "")
    \o MD_DESC_BEGIN \o "\n"
    \o description \o "\n" \o "\n"
    \o MD_DESC_END \o "\n" \o "\n"
    \o "## Print Instructions\n" \o "\n"
    \o MD_INSTR_BEGIN \o "\n"
    \o instructions \o "\n" \o "\n"
    \o MD_INSTR_END \o "\n"

\* "\n".join(lines)
_render_readme(title, description, instructions) ==
    (IF title # "" THEN "# " \o title \o "\n" \o "\n" ELSE "")
    \o MD_DESC_BEGIN \o "\n"
    \o rstrip(description) \o "\n" \o "\n"
    \o MD_DESC_END \o "\n" \o "\n"
    \o "## Print Instructions\n" \o "\n"
    \o MD_INSTR_BEGIN \o "\n"
    \o rstrip(instructions) \o "\n" \o "\n"
    \o MD_INSTR_END \o "\n"

\* the text between the markers with its newlines left on
_extract_between_untrimmed(text, start, end) ==
    LET s == find(text, start, 0) IN
    IF s = -1 THEN None
    ELSE LET e == find(text, end, s + Len(start)) IN
         IF e = -1 THEN None
         ELSE Some(Slice(text, s + Len(start), e))

\* _extract_between(text, start, end) -> str | None
_extract_between(text, start, end) ==
    LET s == find(text, start, 0) IN
    IF s = -1 THEN None
    ELSE LET e == find(text, end, s + Len(start)) IN
         IF e = -1 THEN None
         ELSE Some(strip_chars(Slice(text, s + Len(start), e), {"\n"}))

\* the index of the first character at or after q that \s does not match, len(text)
\* if there is none
SkipSpace(text, q) ==
    Min({i \in q..Len(text) : i = Len(text) \/ Char(text, i + 1) \notin Whitespace})

\* the index after \s*w1\s*w2... matched from q, ignoring case, or -1
RECURSIVE MatchWords(_, _, _, _)
MatchWords(text, q, words, k) ==
    IF k > Len(words) THEN q
    ELSE LET b == SkipSpace(text, q)
             e == b + Len(words[k])
         IN  IF e <= Len(text) /\ lower(Slice(text, b, e)) = words[k]
             THEN MatchWords(text, e, words, k + 1)
             ELSE -1

\* m.end() of the match of the pattern with these words that starts at p, or -1:
\* \s*$ ends at the end of the text, else before the last newline of the white
\* space that follows the words
MatchAt(text, p, words) ==
    IF ~( /\ (p = 0 \/ Char(text, p) = "\n")
          /\ p + 2 <= Len(text)
          /\ Slice(text, p, p + 2) = "##" )
    THEN -1
    ELSE LET q == MatchWords(text, p + 2, words, 1) IN
         IF q = -1 THEN -1
         ELSE LET r == SkipSpace(text, q)
                  nl == {i \in q..(r - 1) : Char(text, i + 1) = "\n"}
              IN  IF r = Len(text) THEN r
                  ELSE IF nl = {} THEN -1
                  ELSE CHOOSE i \in nl : \A j \in nl : j <= i

\* re.search(pat, text, IGNORECASE | MULTILINE): <<m.start(), m.end()>> of the
\* leftmost match, or None
re_search(words, text) ==
    LET at == {p \in 0..Len(text) : MatchAt(text, p, words) # -1} IN
    IF at = {} THEN None ELSE <<Min(at), MatchAt(text, Min(at), words)>>

\* _parse_readme(text) -> (description, instructions)
_parse_readme(text) ==
    LET desc == _extract_between(text, MD_DESC_BEGIN, MD_DESC_END)
        instr == _extract_between(text, MD_INSTR_BEGIN, MD_INSTR_END)
        matching == {k \in DOMAIN _PRINT_INSTR_HEADINGS :
                        ~IsNone(re_search(_PRINT_INSTR_HEADINGS[k], text))}
    IN  IF ~IsNone(desc) \/ ~IsNone(instr)
        THEN <<IF IsNone(desc) THEN "" ELSE Val(desc), IF IsNone(instr) THEN "" ELSE Val(instr)>>
        ELSE IF matching # {}
        THEN LET m == re_search(_PRINT_INSTR_HEADINGS[Min(matching)], text)
                 line_end == find(text, "\n", m[2])
             IN  IF line_end = -1 THEN <<strip(Slice(text, 0, m[1])), "">>
                 ELSE <<strip(Slice(text, 0, m[1])),
                        strip(Slice(text, line_end + 1, Len(text)))>>
        ELSE <<strip(text), "">>

----------------------------------------------------------------------------
(* modpub/plugins/localdir/plugin.py: LocalDirPlugin, and modpub/core/storage.py. *)
(* A path, as a Path and as the str of it, is the sequence of its components;     *)
(* an absolute path starts with the component "/".  A file system is the          *)
(* function from the paths of its files to their content and the set of its       *)
(* directories.                                                                   *)

\* the working directory of the process
Cwd == <<"/", "w">>

IsAbsolute(p) == p # <<>> /\ p[1] = "/"
\* a / b
Join(a, b) == IF IsAbsolute(b) THEN b ELSE a \o b
\* Path.resolve()
Resolve(p) == IF IsAbsolute(p) THEN p ELSE Cwd \o p
Parent(p) == SubSeq(p, 1, Len(p) - 1)

\* sha256_file(path): the digest of the content of the file
sha256_file(fsys, p) == <<"sha256", fsys.files[p]>>

\* ensure_dir(path): the directories after path.mkdir(parents=True, exist_ok=True)
ensure_dir(dirs, p) == dirs \cup {SubSeq(p, 1, k) : k \in 1..Len(p)}

\* the asset has a path that is not the empty string
HasPath(a) == ~IsNone(a.path) /\ Val(a.path) # <<>>

\* the copy loop without the hash of the copy
RECURSIVE CopyAssets_unhashed(_, _, _, _, _, _)
CopyAssets_unhashed(fsys, root, dir, assets, i, hashed) ==
    IF i > Len(assets) THEN <<"ok", fsys, assets>>
    ELSE
        LET a == assets[i]
            dst == Join(dir, a.filename)
        IN  IF ~(HasPath(a) /\ Resolve(Val(a.path)) \in DOMAIN fsys.files)
            THEN CopyAssets_unhashed(fsys, root, dir, assets, i + 1, hashed)
            ELSE IF Resolve(Val(a.path)) # Resolve(dst) /\ Parent(Resolve(dst)) \notin fsys.dirs
            THEN <<"FileNotFoundError", fsys, assets>>
            ELSE IF SubSeq(dst, 1, Len(root)) # root
            THEN <<"ValueError", fsys, assets>>
            ELSE
                LET copied == [fsys EXCEPT !.files = DictSet(@, Resolve(dst),
                                                            @[Resolve(Val(a.path))])]
                    b == [a EXCEPT !.path = Some(SubSeq(dst, Len(root) + 1, Len(dst))),
                                   !.sha256 = @]
                IN  CopyAssets_unhashed(copied, root, dir, [assets EXCEPT ![i] = b], i + 1, hashed)

\* the copy loop with shutil.copy2 called also when the source is the destination
RECURSIVE CopyAssetsAlways(_, _, _, _, _, _)
CopyAssetsAlways(fsys, root, dir, assets, i, hashed) ==
    IF i > Len(assets) THEN <<"ok", fsys, assets>>
    ELSE
        LET a == assets[i]
            dst == Join(dir, a.filename)
        IN  IF ~(HasPath(a) /\ Resolve(Val(a.path)) \in DOMAIN fsys.files)
            THEN CopyAssetsAlways(fsys, root, dir, assets, i + 1, hashed)
            ELSE IF Resolve(Val(a.path)) = Resolve(dst)
            THEN <<"SameFileError", fsys, assets>>
            ELSE IF Parent(Resolve(dst)) \notin fsys.dirs
            THEN <<"FileNotFoundError", fsys, assets>>
            ELSE
                LET copied == [fsys EXCEPT !.files = DictSet(@, Resolve(dst),
                                                            @[Resolve(Val(a.path))])]
                    b == [a EXCEPT !.path = Some(SubSeq(dst, Len(root) + 1, Len(dst))),
                                   !.sha256 = IF hashed THEN Some(sha256_file(copied, dst))
                                              ELSE @]
                IN  CopyAssetsAlways(copied, root, dir, [assets EXCEPT ![i] = b], i + 1, hashed)

\* the copy loop of write over assets[i..], into the directory dir under root:
\* <<"ok" or the exception raised, the file system, the assets as the loop left them>>
RECURSIVE CopyAssets(_, _, _, _, _, _)
CopyAssets(fsys, root, dir, assets, i, hashed) ==
    IF i > Len(assets) THEN <<"ok", fsys, assets>>
    ELSE
        LET a == assets[i]
            dst == Join(dir, a.filename)
        IN  IF ~(HasPath(a) /\ Resolve(Val(a.path)) \in DOMAIN fsys.files)
            THEN CopyAssets(fsys, root, dir, assets, i + 1, hashed)
            ELSE IF Resolve(Val(a.path)) # Resolve(dst) /\ Parent(Resolve(dst)) \notin fsys.dirs
            THEN <<"FileNotFoundError", fsys, assets>>
            ELSE IF SubSeq(dst, 1, Len(root)) # root
            THEN <<"ValueError", fsys, assets>>
            ELSE
                LET copied == [fsys EXCEPT !.files = DictSet(@, Resolve(dst),
                                                            @[Resolve(Val(a.path))])]
                    b == [a EXCEPT !.path = Some(SubSeq(dst, Len(root) + 1, Len(dst))),
                                   !.sha256 = IF hashed THEN Some(sha256_file(copied, dst))
                                              ELSE @]
                IN  CopyAssets(copied, root, dir, [assets EXCEPT ![i] = b], i + 1, hashed)

\* a write that leaves a metadata.json that is there as it is
write_keeping_metadata(fsys, design, locator, mode) ==
    LET root == Resolve(locator)
        files_dir == Join(root, <<"files">>)
        images_dir == Join(root, <<"images">>)
        made == [fsys EXCEPT !.dirs = ensure_dir(ensure_dir(ensure_dir(@, root), files_dir),
                                                 images_dir)]
        f == CopyAssets(made, root, files_dir, design.files, 1, TRUE)
        im == CopyAssets(f[2], root, images_dir, design.images, 1, FALSE)
        written == [design EXCEPT !.files = f[3], !.images = im[3]]
        meta == Join(root, <<"metadata.json">>)
    IN  IF f[1] # "ok" THEN <<Raise(f[1]), f[2]>>
        ELSE IF im[1] # "ok" THEN <<Raise(im[1]), im[2]>>
        ELSE <<Ok(root),
               [im[2] EXCEPT !.files =
                   DictSet(DictSet(@, meta, IF meta \in DOMAIN @ THEN @[meta]
                                            ELSE to_json(written)),
                           Join(root, <<"README.md">>),
                           _render_readme(design.title, design.description_md,
                                          design.instructions_md))]>>

\* a write that takes back what it did when a copy fails
write_rolling_back(fsys, design, locator, mode) ==
    LET root == Resolve(locator)
        files_dir == Join(root, <<"files">>)
        images_dir == Join(root, <<"images">>)
        made == [fsys EXCEPT !.dirs = ensure_dir(ensure_dir(ensure_dir(@, root), files_dir),
                                                 images_dir)]
        f == CopyAssets(made, root, files_dir, design.files, 1, TRUE)
        im == CopyAssets(f[2], root, images_dir, design.images, 1, FALSE)
        written == [design EXCEPT !.files = f[3], !.images = im[3]]
    IN  IF f[1] # "ok" THEN <<Raise(f[1]), fsys>>
        ELSE IF im[1] # "ok" THEN <<Raise(im[1]), fsys>>
        ELSE <<Ok(root),
               [im[2] EXCEPT !.files =
                   DictSet(DictSet(@, Join(root, <<"metadata.json">>), to_json(written)),
                           Join(root, <<"README.md">>),
                           _render_readme(design.title, design.description_md,
                                          design.instructions_md))]>>

\* LocalDirPlugin.write(design, locator, mode) on the file system fsys:
\* <<what it returns or raises, the file system it leaves>>
write(fsys, design, locator, mode) ==
    LET root == Resolve(locator)
        files_dir == Join(root, <<"files">>)
        images_dir == Join(root, <<"images">>)
        made == [fsys EXCEPT !.dirs = ensure_dir(ensure_dir(ensure_dir(@, root), files_dir),
                                                 images_dir)]
        f == CopyAssets(made, root, files_dir, design.files, 1, TRUE)
        im == CopyAssets(f[2], root, images_dir, design.images, 1, FALSE)
        written == [design EXCEPT !.files = f[3], !.images = im[3]]
    IN  IF f[1] # "ok" THEN <<Raise(f[1]), f[2]>>
        ELSE IF im[1] # "ok" THEN <<Raise(im[1]), im[2]>>
        ELSE <<Ok(root),
               [im[2] EXCEPT !.files =
                   DictSet(DictSet(@, Join(root, <<"metadata.json">>), to_json(written)),
                           Join(root, <<"README.md">>),
                           _render_readme(design.title, design.description_md,
                                          design.instructions_md))]>>

\* the Design object given to write as the write leaves it: the assets the copy
\* loops have reached are changed in place
write_leaves(fsys, design, locator) ==
    LET root == Resolve(locator)
        files_dir == Join(root, <<"files">>)
        images_dir == Join(root, <<"images">>)
        made == [fsys EXCEPT !.dirs = ensure_dir(ensure_dir(ensure_dir(@, root), files_dir),
                                                 images_dir)]
        f == CopyAssets(made, root, files_dir, design.files, 1, TRUE)
        im == CopyAssets(f[2], root, images_dir, design.images, 1, FALSE)
    IN  [design EXCEPT !.files = f[3], !.images = IF f[1] = "ok" THEN im[3] ELSE @]

\* the file asset with the hash metadata.json has for it
ReadFileAssetKeepingHash(fsys, root, f) ==
    IF HasPath(f) THEN f
    ELSE [f EXCEPT !.path = Some(Join(Join(root, <<"files">>), f.filename))]

\* the file asset f as the first loop of read leaves it
ReadFileAsset(fsys, root, f) ==
    LET p == IF HasPath(f)
             THEN IF IsAbsolute(Val(f.path)) THEN Val(f.path)
                  ELSE Resolve(Join(root, Val(f.path)))
             ELSE Join(Join(root, <<"files">>), f.filename)
        g == IF HasPath(f) THEN f ELSE [f EXCEPT !.path = Some(p)]
    IN  IF p \in DOMAIN fsys.files THEN [g EXCEPT !.sha256 = Some(sha256_file(fsys, p))] ELSE g

\* the image asset im as the second loop of read leaves it
ReadImageAsset(root, im) ==
    IF HasPath(im) THEN im
    ELSE [im EXCEPT !.path = Some(Join(Join(root, <<"images">>), im.filename))]

\* a read that returns an empty Design where metadata.json is missing or is not
\* the JSON of a Design
read_or_empty(fsys, locator) ==
    LET root == Resolve(locator)
        meta == Join(root, <<"metadata.json">>)
        empty == Design("", "", "", <<>>, <<>>, None, None, <<>>, <<>>, <<>>, None, None, None,
                        <<>>)
    IN  IF meta \notin DOMAIN fsys.files THEN Ok(empty)
        ELSE IF ~IsOk(from_json(fsys.files[meta])) THEN Ok(empty)
        ELSE from_json(fsys.files[meta])

\* a read that lets README.md override only with the parts it parses as non-empty
read_unless_empty(fsys, locator) ==
    LET root == Resolve(locator)
        meta == Join(root, <<"metadata.json">>)
        readme_path == Join(root, <<"README.md">>)
    IN  IF meta \notin DOMAIN fsys.files THEN Raise("ValidationError")
        ELSE LET loaded == from_json(fsys.files[meta]) IN
             IF ~IsOk(loaded) THEN loaded
             ELSE
                LET design == loaded[2]
                    parsed == _parse_readme(read_text(fsys.files[readme_path]))
                    overridden == readme_path \in DOMAIN fsys.files
                IN  Ok([design EXCEPT
                           !.files = [i \in DOMAIN @ |-> ReadFileAsset(fsys, root, @[i])],
                           !.images = [i \in DOMAIN @ |-> ReadImageAsset(root, @[i])],
                           !.description_md =
                               IF overridden /\ parsed[1] # "" THEN parsed[1] ELSE @,
                           !.instructions_md =
                               IF overridden /\ parsed[2] # "" THEN parsed[2] ELSE @])

\* LocalDirPlugin.read(locator) on the file system fsys
read(fsys, locator) ==
    LET root == Resolve(locator)
        meta == Join(root, <<"metadata.json">>)
        readme_path == Join(root, <<"README.md">>)
    IN  IF meta \notin DOMAIN fsys.files THEN Raise("ValidationError")
        ELSE LET loaded == from_json(fsys.files[meta]) IN
             IF ~IsOk(loaded) THEN loaded
             ELSE
                LET design == loaded[2]
                    parsed == _parse_readme(read_text(fsys.files[readme_path]))
                    overridden == readme_path \in DOMAIN fsys.files
                IN  Ok([design EXCEPT
                           !.files = [i \in DOMAIN @ |-> ReadFileAsset(fsys, root, @[i])],
                           !.images = [i \in DOMAIN @ |-> ReadImageAsset(root, @[i])],
                           !.description_md = IF overridden THEN parsed[1] ELSE @,
                           !.instructions_md = IF overridden THEN parsed[2] ELSE @])

----------------------------------------------------------------------------
(* modpub/plugins/thingiverse/api.py and plugin.py: ThingiversePlugin.write.     *)
(* What the platform does with a request is <<"answer", status, body>>, the body *)
(* a JSON value or <<"text", t>>, or <<"error", e>> when sending raises e.  A    *)
(* request sent is <<kind, url, content>>; sent holds <<request, answer>> pairs.  *)

\* Response.raise_for_status(), after the request itself
raise_for_status(answer) ==
    IF answer[1] = "error" THEN Raise(answer[2])
    ELSE IF answer[2] >= 400 THEN Raise("HTTPError")
    ELSE Ok(answer[3])

\* ThingiverseAPI._post: what it returns or raises on the answer
_post(answer) ==
    IF answer[1] = "answer" /\ answer[2] = 401 THEN Raise("AuthenticationError")
    ELSE raise_for_status(answer)

\* ThingiverseAPI._patch
_patch(answer) ==
    IF answer[1] = "answer" /\ answer[2] = 401 THEN Raise("AuthenticationError")
    ELSE raise_for_status(answer)

\* ThingiverseAPI.create_thing, update_thing, initiate_file_upload: the request
create_thing(payload) == <<"create_thing", "/things", payload>>
update_thing(thing_id, payload) == <<"update_thing", "/things/" \o thing_id, payload>>
initiate_file_upload(thing_id, filename, size) ==
    <<"initiate_file_upload", "/things/" \o thing_id \o "/files", <<filename, size>>>>

\* str(x) of a JSON value that is a string or null
PyStrOf(j) == IF j = JNull THEN "None" ELSE j[2]

\* [tag.strip() for tag in tags if tag and tag.strip()]
RECURSIVE CleanTags(_)
CleanTags(tags) ==
    IF tags = <<>> THEN <<>>
    ELSE IF strip(Head(tags)) = "" THEN CleanTags(Tail(tags))
    ELSE <<strip(Head(tags))>> \o CleanTags(Tail(tags))

\* the payload of create_thing, with the default license "cc"
CreatePayload(design) ==
    LET description == strip(design.description_md)
        instructions == strip(design.instructions_md)
        tags == CleanTags(design.tags)
        normalized_license ==
            IF IsNone(design.license) THEN None
            ELSE normalize_license(<<"License", Val(design.license)>>)
        lic_out == map_for_platform(normalized_license, "thingiverse")
    IN  << <<"name", strip(design.title)>>,
           <<"description", IF description # "" THEN description ELSE "A 3D design">>,
           <<"instructions",
             IF instructions # "" THEN instructions ELSE "Print with standard settings">>,
           <<"is_wip", FALSE>>,
           <<"category", "other">> >>
        \o (IF tags # <<>> THEN << <<"tags", tags>> >> ELSE <<>>)
        \o << <<"license", IF ~IsNone(lic_out) /\ Val(lic_out) # "" THEN Val(lic_out)
                           ELSE "cc">> >>

\* the payload of update_thing
UpdatePayload(design) ==
    LET lic_out == map_for_platform(design.license, "thingiverse")
    IN  << <<"name", design.title>>,
           <<"description", design.description_md>>,
           <<"instructions", design.instructions_md>>,
           <<"tags", design.tags>> >>
        \o (IF ~IsNone(lic_out) /\ Val(lic_out) # "" THEN << <<"license", Val(lic_out)>> >>
            ELSE <<>>)

\* step 1 of an upload that takes no finalize callback from the fields
Initiated_without_redirect(r) ==
    IF ~IsOk(r) \/ r[2][1] # "dict" THEN <<"skip">>
    ELSE
        LET upload_url == Item(r[2][2], "action", JNull)
            fields == Item(r[2][2], "fields", JNull)
            form_fields == IF Truthy(fields) THEN fields ELSE JDict(<<>>)
        IN  IF form_fields[1] # "dict" THEN <<"skip">>
            ELSE IF ~Truthy(upload_url) \/ ~Truthy(form_fields) THEN <<"skip">>
            ELSE <<"go", upload_url[2], form_fields, JNull>>

\* step 1 of an upload on what initiate_file_upload returned or raised:
\* <<"skip">>, or <<"go", upload_url, form_fields, success_redirect>>
Initiated(r) ==
    IF ~IsOk(r) \/ r[2][1] # "dict" THEN <<"skip">>
    ELSE
        LET upload_url == Item(r[2][2], "action", JNull)
            fields == Item(r[2][2], "fields", JNull)
            form_fields == IF Truthy(fields) THEN fields ELSE JDict(<<>>)
        IN  IF form_fields[1] # "dict" THEN <<"skip">>
            ELSE IF ~Truthy(upload_url) \/ ~Truthy(form_fields) THEN <<"skip">>
            ELSE <<"go", upload_url[2], form_fields,
                   Item(form_fields[2], "success_action_redirect", JNull)>>

\* the upload loop without raise_for_status on the transfer and the finalize response
RECURSIVE UploadAssets_unchecked(_, _, _, _, _, _)
UploadAssets_unchecked(fsys, thing_id, assets, i, answers, log) ==
    IF i > Len(assets) THEN <<"ok", log>>
    ELSE IF ~(HasPath(assets[i]) /\ Resolve(Val(assets[i].path)) \in DOMAIN fsys.files)
    THEN UploadAssets_unchecked(fsys, thing_id, assets, i + 1, answers, log)
    ELSE
        LET asset == assets[i]
            size == Len(fsys.files[Resolve(Val(asset.path))])
            init == Initiated(_post(answers[i][1]))
            log1 == Append(log, <<initiate_file_upload(thing_id, asset.filename, size),
                                  answers[i][1]>>)
            log2 == Append(log1, <<<<"transfer", init[2], asset.filename>>, answers[i][2]>>)
            log3 == Append(log2, <<<<"finalize", init[4][2], init[3]>>, answers[i][3]>>)
        IN  IF init[1] = "skip"
            THEN UploadAssets_unchecked(fsys, thing_id, assets, i + 1, answers, log1)
            ELSE IF ~Truthy(init[4])
            THEN UploadAssets_unchecked(fsys, thing_id, assets, i + 1, answers, log2)
            ELSE UploadAssets_unchecked(fsys, thing_id, assets, i + 1, answers, log3)

\* the upload loop ended, rather than continued, by an asset whose step 1 failed
RECURSIVE UploadAssets_stopping(_, _, _, _, _, _)
UploadAssets_stopping(fsys, thing_id, assets, i, answers, log) ==
    IF i > Len(assets) THEN <<"ok", log>>
    ELSE IF ~(HasPath(assets[i]) /\ Resolve(Val(assets[i].path)) \in DOMAIN fsys.files)
    THEN UploadAssets_stopping(fsys, thing_id, assets, i + 1, answers, log)
    ELSE
        LET asset == assets[i]
            size == Len(fsys.files[Resolve(Val(asset.path))])
            init == Initiated(_post(answers[i][1]))
            log1 == Append(log, <<initiate_file_upload(thing_id, asset.filename, size),
                                  answers[i][1]>>)
            log2 == Append(log1, <<<<"transfer", init[2], asset.filename>>, answers[i][2]>>)
            log3 == Append(log2, <<<<"finalize", init[4][2], init[3]>>, answers[i][3]>>)
        IN  IF init[1] = "skip" THEN <<"ok", log1>>
            ELSE IF ~IsOk(raise_for_status(answers[i][2]))
            THEN <<raise_for_status(answers[i][2])[2], log2>>
            ELSE IF ~Truthy(init[4])
            THEN UploadAssets_stopping(fsys, thing_id, assets, i + 1, answers, log2)
            ELSE IF ~IsOk(raise_for_status(answers[i][3]))
            THEN <<raise_for_status(answers[i][3])[2], log3>>
            ELSE UploadAssets_stopping(fsys, thing_id, assets, i + 1, answers, log3)

\* the upload loop of write over assets[i..]; answers[i] is what the platform does
\* with the initiate, the transfer and the finalize request of assets[i]:
\* <<"ok" or the exception raised, the requests sent>>
RECURSIVE UploadAssets(_, _, _, _, _, _)
UploadAssets(fsys, thing_id, assets, i, answers, log) ==
    IF i > Len(assets) THEN <<"ok", log>>
    ELSE IF ~(HasPath(assets[i]) /\ Resolve(Val(assets[i].path)) \in DOMAIN fsys.files)
    THEN UploadAssets(fsys, thing_id, assets, i + 1, answers, log)
    ELSE
        LET asset == assets[i]
            size == Len(fsys.files[Resolve(Val(asset.path))])
            init == Initiated(_post(answers[i][1]))
            log1 == Append(log, <<initiate_file_upload(thing_id, asset.filename, size),
                                  answers[i][1]>>)
            log2 == Append(log1, <<<<"transfer", init[2], asset.filename>>, answers[i][2]>>)
            log3 == Append(log2, <<<<"finalize", init[4][2], init[3]>>, answers[i][3]>>)
        IN  IF init[1] = "skip" THEN UploadAssets(fsys, thing_id, assets, i + 1, answers, log1)
            ELSE IF ~IsOk(raise_for_status(answers[i][2]))
            THEN <<raise_for_status(answers[i][2])[2], log2>>
            ELSE IF ~Truthy(init[4])
            THEN UploadAssets(fsys, thing_id, assets, i + 1, answers, log2)
            ELSE IF ~IsOk(raise_for_status(answers[i][3]))
            THEN <<raise_for_status(answers[i][3])[2], log3>>
            ELSE UploadAssets(fsys, thing_id, assets, i + 1, answers, log3)

\* ThingiversePlugin.write working on the locator in create mode as well
thingiverse_write_at_locator(fsys, design, locator, mode, entity, answers) ==
    IF mode \notin {"create", "update"} THEN <<Raise("ValidationError"), <<>>>>
    ELSE IF mode = "create" /\ strip(design.title) = "" THEN <<Raise("ValidationError"), <<>>>>
    ELSE
        LET request == IF mode = "create" THEN create_thing(CreatePayload(design))
                       ELSE update_thing(strip(locator), UpdatePayload(design))
            r == IF mode = "create" THEN _post(entity) ELSE _patch(entity)
            log == << <<request, entity>> >>
            thing_id == strip(locator)
        IN  IF ~IsOk(r) THEN <<r, log>>
            ELSE IF mode = "create" /\ r[2][1] # "dict" THEN <<Raise("AttributeError"), log>>
            ELSE LET up == UploadAssets(fsys, thing_id, design.files, 1, answers, log)
                 IN  <<IF up[1] = "ok" THEN Ok(thing_id) ELSE Raise(up[1]), up[2]>>

\* ThingiversePlugin.write without the check of the title
thingiverse_write_untitled(fsys, design, locator, mode, entity, answers) ==
    IF mode \notin {"create", "update"} THEN <<Raise("ValidationError"), <<>>>>
    ELSE
        LET request == IF mode = "create" THEN create_thing(CreatePayload(design))
                       ELSE update_thing(strip(locator), UpdatePayload(design))
            r == IF mode = "create" THEN _post(entity) ELSE _patch(entity)
            log == << <<request, entity>> >>
            thing_id == IF mode = "create" THEN PyStrOf(Item(r[2][2], "id", JNull))
                        ELSE strip(locator)
        IN  IF ~IsOk(r) THEN <<r, log>>
            ELSE IF mode = "create" /\ r[2][1] # "dict" THEN <<Raise("AttributeError"), log>>
            ELSE LET up == UploadAssets(fsys, thing_id, design.files, 1, answers, log)
                 IN  <<IF up[1] = "ok" THEN Ok(thing_id) ELSE Raise(up[1]), up[2]>>

\* ThingiversePlugin.write(design, locator, mode); entity is what the platform does
\* with the create_thing or update_thing request, answers what it does with the
\* requests of each file asset: <<what write returns or raises, the requests sent>>
thingiverse_write(fsys, design, locator, mode, entity, answers) ==
    IF mode \notin {"create", "update"} THEN <<Raise("ValidationError"), <<>>>>
    ELSE IF mode = "create" /\ strip(design.title) = "" THEN <<Raise("ValidationError"), <<>>>>
    ELSE
        LET request == IF mode = "create" THEN create_thing(CreatePayload(design))
                       ELSE update_thing(strip(locator), UpdatePayload(design))
            r == IF mode = "create" THEN _post(entity) ELSE _patch(entity)
            log == << <<request, entity>> >>
            thing_id == IF mode = "create" THEN PyStrOf(Item(r[2][2], "id", JNull))
                        ELSE strip(locator)
        IN  IF ~IsOk(r) THEN <<r, log>>
            ELSE IF mode = "create" /\ r[2][1] # "dict" THEN <<Raise("AttributeError"), log>>
            ELSE LET up == UploadAssets(fsys, thing_id, design.files, 1, answers, log)
                 IN  <<IF up[1] = "ok" THEN Ok(thing_id) ELSE Raise(up[1]), up[2]>>

----------------------------------------------------------------------------
(* The registry as a state machine *)

Platforms == {"thingiverse", "printables"}
RegKeys == {"CC-BY-4.0", "GPL-3.0"}
RegIds == {"cc", "Cc", " cc", ""}
CatalogNames == {"custom", "BSD ", " "}
CatalogLicenses ==
    {License("CUSTOM-1.0", Some("Custom License 1.0"), Some("https://example.com/custom")),
     License("bsd", None, None)}

Tables == [out |-> PLATFORM_OUTBOUND, inb |-> PLATFORM_INBOUND]
AllTables == [out |-> PLATFORM_OUTBOUND, inb |-> PLATFORM_INBOUND, canon |-> CANONICAL]

\* A registry operation is <<"call", c>>, <<"canonical", input name, license>> or
\* <<"hook">>
NoOp == <<"none">>
NoCall == <<"none">>

\* the files a Design's assets are taken from, before anything is written
InitialFs ==
    [files |-> (<<"/", "s", "x">> :> "123") @@ (<<"/", "s", "y">> :> "456")
               @@ (<<"/", "w", "x">> :> "789") @@ (<<"/", "w", "files", "a.stl">> :> "000"),
     dirs |-> {<<"/">>, <<"/", "s">>, <<"/", "w">>, <<"/", "w", "files">>}]

Init ==
    /\ CANONICAL = CanonicalBuiltin
    /\ PLATFORM_OUTBOUND = EmptyDict
    /\ PLATFORM_INBOUND = EmptyDict
    /\ regLog = <<>>
    /\ catalogLog = <<>>
    /\ nOps = 0
    /\ lastOp = NoOp
    /\ afterFirst = None
    /\ fs = InitialFs
    /\ sent = <<>>
    /\ call = NoCall
    /\ ret = None

\* the effect of the operation o on the tables a = [out, inb, canon]
ApplyOp(a, o) ==
    LET t == [out |-> a.out, inb |-> a.inb] IN
    IF o[1] = "canonical"
    THEN [out |-> a.out, inb |-> a.inb,
          canon |-> register_canonical_license(a.canon, o[2], o[3])]
    ELSE LET r == IF o[1] = "hook" THEN register_license_mappings(t)
                  ELSE ApplyCall(t, o[2])
         IN  [out |-> r.out, inb |-> r.inb, canon |-> a.canon]

\* the registration calls the operation o makes
CallsOf(o) ==
    IF o[1] = "hook" THEN HookCalls
    ELSE IF o[1] = "call" THEN <<o[2]>> ELSE <<>>

Invoke(o, max) ==
    /\ nOps < max
    /\ LET a == ApplyOp(AllTables, o) IN
        /\ CANONICAL' = a.canon
        /\ PLATFORM_OUTBOUND' = a.out
        /\ PLATFORM_INBOUND' = a.inb
    /\ regLog' = regLog \o CallsOf(o)
    /\ catalogLog' = IF o[1] = "canonical" THEN Append(catalogLog, <<o[2], o[3]>>)
                      ELSE catalogLog
    /\ nOps' = nOps + 1
    /\ lastOp' = o
    /\ afterFirst' = None
    /\ call' = NoCall
    /\ ret' = None
    /\ UNCHANGED <<fsVars, netVars>>

RegisterPlatformLicenseMapping(max) ==
    \E p \in Platforms, k \in RegKeys, id \in RegIds :
        Invoke(<<"call", RegCall("both", p, k, id, "call")>>, max)

RegisterPlatformInboundMapping(max) ==
    \E p \in Platforms, k \in RegKeys, id \in RegIds :
        Invoke(<<"call", RegCall("inbound", p, k, id, "call")>>, max)

RegisterCanonicalLicense(max) ==
    \E n \in CatalogNames, l \in CatalogLicenses :
        Invoke(<<"canonical", n, l>>, max)

RegisterLicenseMappingsHook(max) == Invoke(<<"hook">>, max)

\* the last registration operation is invoked once more with the same arguments
RepeatLast ==
    /\ lastOp # NoOp
    /\ LET a == ApplyOp(AllTables, lastOp) IN
        /\ CANONICAL' = a.canon
        /\ PLATFORM_OUTBOUND' = a.out
        /\ PLATFORM_INBOUND' = a.inb
    /\ afterFirst' = IF IsNone(afterFirst) THEN Some(AllTables) ELSE afterFirst
    /\ UNCHANGED <<regLog, catalogLog, nOps, lastOp, callVars, fsVars, netVars>>

NextRegistry ==
    \/ RegisterPlatformLicenseMapping(MaxRegOps)
    \/ RegisterPlatformInboundMapping(MaxRegOps)
    \/ RegisterCanonicalLicense(MaxRegOps)
    \/ RegisterLicenseMappingsHook(MaxRegOps)
    \/ RepeatLast

\* registrations of every kind, with each operation possibly repeated
SpecRegistry == Init /\ [][NextRegistry]_vars

----------------------------------------------------------------------------
(* The catalog and the normalisation functions as a state machine *)

\* texts given to normalize_license
LicenseTexts == {"", " ", "cc-by", " CC-BY ", "Bsd", "custom", "CUSTOM-1.0", "unknown"}
\* License objects given to normalize_license
LicenseObjects ==
    {License("GPL-3.0", None, None), License("GPL-3.0", Some("cc0"), None),
     License("x", Some(" CC0 "), None), License("x", Some("y"), None),
     License("x", None, None), License("", Some(" "), None), License("", Some("lgpl"), None),
     License("CUSTOM-1.0", Some("custom"), None), License(" bsd", Some(""), None)}
LicenseInputs ==
    {<<"none">>} \cup {<<"str", t>> : t \in LicenseTexts}
                 \cup {<<"License", l>> : l \in LicenseObjects}

\* normalize_license_name is called with nothing, with the empty string, or with
\* the key of a License the catalog holds
CallNormalizeLicenseName ==
    /\ \E name \in {None, Some("")} \cup {Some(CANONICAL[n].key) : n \in DOMAIN CANONICAL} :
        /\ call' = <<"normalize_license_name", name>>
        /\ ret' = normalize_license_name(name)
    /\ UNCHANGED <<licVars, fsVars, netVars>>

CallNormalizeLicense ==
    /\ \E lic \in LicenseInputs :
        /\ call' = <<"normalize_license", lic>>
        /\ ret' = normalize_license(lic)
    /\ UNCHANGED <<licVars, fsVars, netVars>>

NextCatalog ==
    \/ RegisterCanonicalLicense(MaxCatalogOps)
    \/ CallNormalizeLicenseName
    \/ CallNormalizeLicense

\* catalog registrations, and calls of the normalisation functions between them
SpecCatalog == Init /\ [][NextCatalog]_vars

----------------------------------------------------------------------------
(* Properties of the catalog *)

\* a name as the catalog compares it
CatalogName(t) == lower(strip(t))

\* the register_canonical_license calls whose input name is n as the catalog
\* compares it
RegisteredAs(n) == {i \in DOMAIN catalogLog : CatalogName(catalogLog[i][1]) = n}

BuiltinLicenses == {CanonicalBuiltin[n] : n \in DOMAIN CanonicalBuiltin}

\* C3, as stated: for every License L the catalog holds, after any registrations,
\* normalize_license_name(L.key) returns L.
C3_EveryCatalogValueFoundByKey ==
    call[1] = "normalize_license_name"
        => \A n \in DOMAIN CANONICAL :
               call[2] = Some(CANONICAL[n].key) => ret = Some(CANONICAL[n])

\* L is a built-in License and no registration used its key as input name, or L is
\* the License of the latest registration whose input name is L's key, both
\* compared as the catalog compares names
FoundByOwnKey(L) ==
    /\ L.key # ""
    /\ IF RegisteredAs(CatalogName(L.key)) = {}
       THEN L \in BuiltinLicenses
       ELSE catalogLog[CHOOSE i \in RegisteredAs(CatalogName(L.key)) :
                           \A j \in RegisteredAs(CatalogName(L.key)) : j <= i][2] = L

\* C3: normalize_license_name(L.key) returns L for every License L the catalog
\* holds that is a built-in entry whose key no register_canonical_license call has
\* used as input name, or the License of the latest register_canonical_license call
\* made under L's own non-empty key (names compared trimmed and in lower case).
C3_NormalizeIdempotent ==
    call[1] = "normalize_license_name"
        => \A n \in DOMAIN CANONICAL :
               (call[2] = Some(CANONICAL[n].key) /\ FoundByOwnKey(CANONICAL[n]))
                   => ret = Some(CANONICAL[n])

\* License("bsd") was registered under "BSD " and is then looked up by its key,
\* while the built-in BSD entry is still held under "bsd license"
C3_Witness ==
    /\ call = <<"normalize_license_name", Some("bsd")>>
    /\ ret = Some(License("bsd", None, None))
    /\ CANONICAL["bsd license"] = BSD
    /\ catalogLog # <<>>

\* what the claim has normalize_license return, a text being found in the catalog
\* when found(t) holds
Expected(lic, found(_)) ==
    IF lic[1] = "none" THEN None
    ELSE IF lic[1] = "str" THEN
        IF found(lic[2]) THEN Some(CANONICAL[CatalogName(lic[2])])
        ELSE Some(License(lic[2], Some(lic[2]), None))
    ELSE IF found(lic[2].key) THEN Some(CANONICAL[CatalogName(lic[2].key)])
    ELSE IF ~IsNone(lic[2].name) /\ found(Val(lic[2].name))
         THEN Some(CANONICAL[CatalogName(Val(lic[2].name))])
    ELSE Some(lic[2])

FoundIgnoringCaseAndWhitespace(t) == CatalogName(t) \in DOMAIN CANONICAL
FoundNonEmpty(t) == t # "" /\ CatalogName(t) \in DOMAIN CANONICAL

\* C4, as stated: absent input gives absent; a text found in the catalog ignoring
\* case and surrounding whitespace gives the catalog License, any other text t gives
\* License(key=t, name=t); a License gives the catalog entry found by its key,
\* otherwise the one found by its name, otherwise the License itself.
C4_NormalizeLicenseAsStated ==
    call[1] = "normalize_license"
        => ret = Expected(call[2], FoundIgnoringCaseAndWhitespace)

\* C4: the same, a text being found in the catalog when it is not the empty string
\* and its trimmed lower-case form is a name of the catalog; the empty text gives
\* License(key="", name=""), and an empty key or name of a License is not looked up.
C4_NormalizeLicense ==
    call[1] = "normalize_license"
        => ret = Expected(call[2], FoundNonEmpty)

\* a License whose key is unknown is resolved by its name, written in other case
\* and whitespace than the catalog's, after a registration
C4_Witness ==
    /\ call = <<"normalize_license", <<"License", License("x", Some(" CC0 "), None)>>>>
    /\ ret = Some(CC0)
    /\ catalogLog # <<>>

----------------------------------------------------------------------------
(* Properties of the registry *)

\* License(key=K): name and url take their defaults
LicenseOfKey(k) == License(k, None, None)

\* map_from_platform(map_for_platform(License(key=K), P), P)
RoundTrip(k, p) == map_from_platform(map_for_platform(Some(LicenseOfKey(k)), p), p)

\* map_for_platform(License(key=map_from_platform(id, P)), P)
ReverseTrip(id, p) ==
    LET k == map_from_platform(Some(id), p) IN
    IF IsNone(k) THEN None ELSE map_for_platform(Some(LicenseOfKey(Val(k))), p)

\* the calls of register_platform_license_mapping made for platform p and key k
TwoWay(p, k) ==
    {i \in DOMAIN regLog : /\ CallOp(regLog[i]) = "both"
                           /\ CallPlatform(regLog[i]) = p
                           /\ CallKey(regLog[i]) = k}

\* the calls of either kind made for platform p whose platform id, in lower case, is n
Storing(p, n) ==
    {i \in DOMAIN regLog : CallPlatform(regLog[i]) = p /\ lower(CallId(regLog[i])) = n}

\* the calls of either kind made for platform p whose platform id is n up to letter
\* case and surrounding whitespace
Naming(p, n) ==
    {i \in DOMAIN regLog : CallPlatform(regLog[i]) = p /\ lower(strip(CallId(regLog[i]))) = n}

Latest(S) == CHOOSE i \in S : \A j \in S : j <= i

\* the hook has run and no registration for thingiverse was made after it
HookStands ==
    \E h \in DOMAIN regLog :
        LET e == h + Len(HookCalls) - 1 IN
        /\ e <= Len(regLog)
        /\ SubSeq(regLog, h, e) = HookCalls
        /\ \A j \in (e + 1)..Len(regLog) : CallPlatform(regLog[j]) # "thingiverse"

\* C2, as stated: after any registrations, every key K registered for P with
\* register_platform_license_mapping maps out to an id that maps back in to K.
C2_RoundTripAfterAnyRegistrations ==
    \A i \in DOMAIN regLog :
        CallOp(regLog[i]) = "both"
            => RoundTrip(CallKey(regLog[i]), CallPlatform(regLog[i])) = Some(CallKey(regLog[i]))

\* C2: let id be the platform id of the latest register_platform_license_mapping
\* call for P and K.  If id is not empty and the latest registration for P, of either
\* kind, whose platform id in lower case equals id trimmed and in lower case binds
\* K, then map_from_platform(map_for_platform(License(key=K), P), P) = K.  When the
\* Thingiverse hook has run and no later registration was made for thingiverse,
\* this holds for its ten pairs, and for their ten ids the reverse composition
\* returns the id.
C2_RoundTrip ==
    /\ \A i \in DOMAIN regLog :
        LET c == regLog[i]
            n == lower(strip(CallId(c)))
        IN  ( /\ CallOp(c) = "both"
              /\ i = Latest(TwoWay(CallPlatform(c), CallKey(c)))
              /\ CallId(c) # ""
              /\ Storing(CallPlatform(c), n) # {}
              /\ CallKey(regLog[Latest(Storing(CallPlatform(c), n))]) = CallKey(c) )
            => RoundTrip(CallKey(c), CallPlatform(c)) = Some(CallKey(c))
    /\ HookStands =>
        \A j \in DOMAIN ThingiverseOutbound :
            /\ RoundTrip(ThingiverseOutbound[j][1], "thingiverse")
                   = Some(ThingiverseOutbound[j][1])
            /\ ReverseTrip(ThingiverseOutbound[j][2], "thingiverse")
                   = Some(ThingiverseOutbound[j][2])

\* the hook ran, then "Cc" was registered both ways for a key of another platform,
\* and that key makes the round trip
C2_Witness ==
    /\ HookStands
    /\ Len(regLog) = Len(HookCalls) + 1
    /\ regLog[Len(regLog)] = RegCall("both", "printables", "GPL-3.0", "Cc", "call")
    /\ RoundTrip("GPL-3.0", "printables") = Some("GPL-3.0")
    /\ ReverseTrip("cc-nc-sa", "thingiverse") = Some("cc-nc-sa")

\* the strings looked up: forms of one id in other letter case and whitespace
LookupForms == {"cc", "CC", " Cc "}

\* C5, as stated: whatever letter case and surrounding whitespace a platform id had
\* when it was registered for P, and whatever letter case and surrounding whitespace
\* the looked-up string has, map_from_platform returns the key registered for the id
\* (the key of the latest registration naming that id).
C5_LookupIgnoresCaseAndWhitespace ==
    \A i \in DOMAIN regLog :
        LET c == regLog[i]
            n == lower(strip(CallId(c)))
        IN  (n # "" /\ i = Latest(Naming(CallPlatform(c), n)))
            => \A s \in LookupForms :
                   lower(strip(s)) = n
                       => map_from_platform(Some(s), CallPlatform(c)) = Some(CallKey(c))

\* C6: while a registration operation (one of the three functions with the same
\* arguments, or the Thingiverse hook) is repeated, the catalog, the outbound table
\* and the inbound table stay as its first application left them.
C6_RegistrationIdempotent ==
    ~IsNone(afterFirst) => AllTables = Val(afterFirst)

\* the hook was invoked on tables that already held a registration, then repeated
C6_Witness ==
    /\ ~IsNone(afterFirst)
    /\ lastOp = <<"hook">>
    /\ nOps = 2
    /\ Len(regLog) = Len(HookCalls) + 1
    /\ "thingiverse" \in DOMAIN PLATFORM_INBOUND

----------------------------------------------------------------------------
(* Design.to_json and Design.from_json as a state machine *)

SeqsUpTo(S, n) == UNION {[1..k -> S] : k \in 0..n}

JsonLicenses == {None, Some(CC_BY), Some(License("", None, None))}
JsonAuthors ==
    {None, Some(Author("", None, None)), Some(Author("ann", Some("https://a/ann"), Some("7")))}
JsonFiles ==
    {FileAsset("a.stl", None, None, None, "model", None),
     FileAsset("b.scad", Some("files/b.scad"), Some("https://a/b"), Some("0f"), "source",
               Some(""))}
JsonImages == {ImageAsset("p.png", Some("images/p.png"), None, Some("front"), None)}
JsonDerivatives == {<<>>, <<Derivative("https://a/1", Some("thingiverse"), None),
                           Derivative("", None, Some("1"))>>}
JsonTags == {<<>>, <<"b", "a", "b">>}
JsonExtras ==
    {<<>>,
     << <<"raw", JDict(<< <<"id", JStr("1")>>, <<"none", JNull>> >>)>>,
        <<"", JList(<<JStr(""), JList(<<>>), JDict(<<>>)>>)>> >>}

\* the Designs put through JSON
JsonDesigns ==
    {Design("T", "d", "", tags, <<>>, lic, auth, files, images, derivatives,
            IF IsNone(auth) THEN None ELSE Some("thingiverse"), None, None, extra) :
        tags \in JsonTags, lic \in JsonLicenses, auth \in JsonAuthors,
        files \in SeqsUpTo(JsonFiles, MaxJsonAssets),
        images \in SeqsUpTo(JsonImages, MaxJsonAssets),
        derivatives \in JsonDerivatives, extra \in JsonExtras}

\* one round trip is made in a behaviour
ToJson ==
    /\ call = NoCall
    /\ \E d \in JsonDesigns :
        /\ call' = <<"to_json", d>>
        /\ ret' = to_json(d)
    /\ UNCHANGED <<licVars, fsVars, netVars>>

\* from_json is given the text to_json returned; the call keeps the Design the text
\* was made from
FromJson ==
    /\ call[1] = "to_json"
    /\ call' = <<"from_json", ret, call[2]>>
    /\ ret' = from_json(ret)
    /\ UNCHANGED <<licVars, fsVars, netVars>>

NextJson == ToJson \/ FromJson

SpecJson == Init /\ [][NextJson]_vars

\* C1: Design.from_json(d.to_json()) returns a Design equal to d field by field,
\* nested dataclasses and the order of the lists included.
C1_JsonRoundTrip ==
    call[1] = "from_json" => ret = Ok(call[3])

\* a Design with a license, an author, two files, two images, derivatives and a
\* nested extra map has made the round trip
C1_Witness ==
    /\ call[1] = "from_json"
    /\ IsOk(ret)
    /\ ret[2].license = Some(CC_BY)
    /\ ~IsNone(ret[2].author)
    /\ Len(ret[2].files) = 2 /\ ret[2].files[1] # ret[2].files[2]
    /\ Len(ret[2].images) = 2
    /\ ret[2].derivatives # <<>>
    /\ ret[2].extra # <<>>

----------------------------------------------------------------------------
(* LocalDirPlugin.write and LocalDirPlugin.read as a state machine *)

\* the directories written to and read from: an absolute one, one relative to Cwd
\* and "", which is Cwd
Locators == {<<"/", "out">>, <<"out">>, <<>>}
Modes == {"create", "update"}

\* a hash that is not the hash of a file
StaleHash == <<"sha256", "000">>

\* file assets: two with the same filename and different sources, one with a source
\* relative to Cwd, one with a filename in a subdirectory, one without a source
LocalFiles ==
    {FileAsset(<<"a.stl">>, Some(<<"/", "s", "x">>), None, None, "model", None),
     FileAsset(<<"a.stl">>, Some(<<"/", "s", "y">>), None, Some(StaleHash), "model", None),
     FileAsset(<<"b.scad">>, Some(<<"x">>), Some("https://a/b"), None, "source", None),
     FileAsset(<<"sub", "c.stl">>, Some(<<"/", "s", "x">>), None, None, "model", None),
     FileAsset(<<"d.stl">>, None, None, None, "model", None)}
LocalImages ==
    {ImageAsset(<<"p.png">>, Some(<<"/", "s", "y">>), None, Some("front"), None),
     ImageAsset(<<"q.png">>, Some(<<"/", "s", "missing">>), None, None, None)}
LocalLicenses == {None, Some(CC_BY), Some(License("custom", Some("Custom"), None))}

\* the Designs written to a directory
LocalDesigns ==
    {Design("Demo", "d", "i", <<>>, <<>>, lic, None, files, images, <<>>, None, None, None,
            <<>>) :
        lic \in LocalLicenses, files \in SeqsUpTo(LocalFiles, MaxLocalAssets),
        images \in SeqsUpTo(LocalImages, MaxLocalAssets)}

\* plugin.write(design, locator, mode=mode); one write is made in a behaviour
LocalWrite(designs) ==
    /\ call = NoCall
    /\ \E design \in designs, locator \in Locators, mode \in Modes :
        LET w == write(fs, design, locator, mode)
        IN  /\ call' = <<"write", design, locator, mode>>
            /\ ret' = w[1]
            /\ fs' = w[2]
    /\ UNCHANGED <<licVars, netVars>>

\* plugin.read(locator); the call keeps the call made before it and what that returned
LocalRead ==
    /\ call[1] \in {"none", "write", "put"}
    /\ \E locator \in Locators :
        /\ call' = <<"read", locator, call, ret>>
        /\ ret' = read(fs, locator)
    /\ UNCHANGED <<licVars, fsVars, netVars>>

NextLocal == LocalWrite(LocalDesigns) \/ LocalRead

SpecLocal == Init /\ [][NextLocal]_vars

\* a read of the directory a write has just been made to
ReadAfterWrite == call[1] = "read" /\ call[3][1] = "write" /\ call[3][3] = call[2]
Written == call[3][2]

AssetsOf(d) == {d.files[i] : i \in DOMAIN d.files} \cup {d.images[i] : i \in DOMAIN d.images}
\* every asset of d points at a file that can be read when d is written
Readable(d) == \A a \in AssetsOf(d) : HasPath(a) /\ Resolve(Val(a.path)) \in DOMAIN InitialFs.files
\* every asset of d has a filename without a directory part
PlainFilenames(d) == \A a \in AssetsOf(d) : Len(a.filename) = 1 /\ a.filename[1] \notin {"", ".", ".."}
Filenames(assets) == [i \in DOMAIN assets |-> assets[i].filename]
LicenseKey(d) == IF IsNone(d.license) THEN None ELSE Some(Val(d.license).key)

\* r has the title, license key and filenames of d, and the hashes of the files
\* stored under files/ in the directory root
SameAsWritten(d, root, r) ==
    /\ r.title = d.title
    /\ LicenseKey(r) = LicenseKey(d)
    /\ Filenames(r.files) = Filenames(d.files)
    /\ Filenames(r.images) = Filenames(d.images)
    /\ \A i \in DOMAIN r.files :
        /\ Join(Join(root, <<"files">>), r.files[i].filename) \in DOMAIN fs.files
        /\ r.files[i].sha256 =
               Some(<<"sha256", fs.files[Join(Join(root, <<"files">>), r.files[i].filename)]>>)

\* C7 as stated: for every Design whose assets point at readable source files, a
\* write in create mode followed by a read of the directory returns a Design with
\* the same title, license key and filename lists, and file hashes equal to the
\* SHA-256 of the bytes stored under files/<filename>.
C7_RoundTripOfAnyFilenames ==
    ReadAfterWrite /\ call[3][4] = "create" /\ Readable(Written)
        => IsOk(ret) /\ SameAsWritten(Written, Resolve(call[2]), ret[2])

\* C7: the same for every Design whose assets point at readable source files and
\* have filenames without a directory part.
C7_RoundTrip ==
    ReadAfterWrite /\ call[3][4] = "create" /\ Readable(Written) /\ PlainFilenames(Written)
        => IsOk(ret) /\ SameAsWritten(Written, Resolve(call[2]), ret[2])

\* a Design with a license, an image and two files of the same filename taken from
\* different sources, one with a stale hash, has been written in create mode to a
\* relative directory and read back
C7_Witness ==
    /\ ReadAfterWrite /\ call[3][4] = "create" /\ call[2] = <<"out">>
    /\ Readable(Written) /\ PlainFilenames(Written)
    /\ ~IsNone(Written.license)
    /\ Len(Written.images) = 1
    /\ Len(Written.files) = 2
    /\ Written.files[1].filename = Written.files[2].filename
    /\ Written.files[1].path # Written.files[2].path
    /\ Written.files[2].sha256 = Some(StaleHash)
    /\ IsOk(ret)
    /\ ret[2].files[1].sha256 = Some(<<"sha256", "456">>)

----------------------------------------------------------------------------
(* README.md as a state machine: written from a Design and read back, and parsed *)
(* from a text                                                                  *)

ReadmeTitles ==
    {"", "T", MD_DESC_END \o " t " \o MD_INSTR_END, "a " \o MD_DESC_BEGIN,
     MD_INSTR_BEGIN \o "\n"}
DescTexts ==
    {"", "General desc", " x", "\n\n x \n\t", "a\rb\r\nc", "x" \o MD_DESC_END \o "y",
     MD_DESC_BEGIN \o MD_INSTR_END, MD_INSTR_BEGIN \o "z", "## Instructions\nq"}
InstrTexts ==
    {"", "Print at 0.2mm", "\tx\n", "\r\ny", "a" \o MD_INSTR_END,
     MD_DESC_BEGIN \o "b" \o MD_DESC_END \o MD_INSTR_BEGIN}

\* the Designs whose README.md is written
ReadmeDesigns ==
    {Design(t, d, i, <<>>, <<>>, None, None, <<>>, <<>>, <<>>, None, None, None, <<>>) :
        t \in ReadmeTitles, d \in DescTexts, i \in InstrTexts}

\* the pieces the texts given to the parser are made of
ReadmePieces ==
    {"a", "\n", "##", "Instructions", "## PRINTING \n", MD_DESC_BEGIN \o "\n b\n\n",
     MD_DESC_END, MD_INSTR_BEGIN \o "c", MD_INSTR_END}

RECURSIVE Concat(_)
Concat(pieces) == IF pieces = <<>> THEN "" ELSE pieces[1] \o Concat(Tail(pieces))

ReadmeTexts == {Concat(pieces) : pieces \in SeqsUpTo(ReadmePieces, MaxReadmePieces)}

\* _parse_readme(text); one text is parsed in a behaviour
ParseReadme ==
    /\ call = NoCall
    /\ \E text \in ReadmeTexts :
        /\ call' = <<"_parse_readme", text>>
        /\ ret' = _parse_readme(text)
    /\ UNCHANGED <<licVars, fsVars, netVars>>

NextReadme == LocalWrite(ReadmeDesigns) \/ LocalRead \/ ParseReadme

SpecReadme == Init /\ [][NextReadme]_vars

Contains(text, sub) == Occurrences(text, sub) # {}
\* the text has a begin marker and an end marker after it
HasPair(text, begin, end) ==
    \E s \in Occurrences(text, begin) : \E e \in Occurrences(text, end) : e >= s + Len(begin)
\* the text between the first begin marker and the first end marker after it
Enclosed(text, begin, end) ==
    LET s == Min(Occurrences(text, begin))
        e == Min({j \in Occurrences(text, end) : j >= s + Len(begin)})
    IN  Slice(text, s + Len(begin), e)
HasBothPairs(text) ==
    HasPair(text, MD_DESC_BEGIN, MD_DESC_END) /\ HasPair(text, MD_INSTR_BEGIN, MD_INSTR_END)

\* the README.md of the directory read
ReadmeRead == fs.files[Join(Resolve(call[2]), <<"README.md">>)]

\* C8 as stated: for every title, description d and instructions i, the README.md a
\* write produces contains both marker pairs, and a read of the directory takes the
\* marker path and returns d trimmed and i trimmed.
C8_ReadmeRoundTripTrimmed ==
    ReadAfterWrite =>
        /\ IsOk(ret)
        /\ HasBothPairs(ReadmeRead)
        /\ HasBothPairs(read_text(ReadmeRead))
        /\ ret[2].description_md = strip(Written.description_md)
        /\ ret[2].instructions_md = strip(Written.instructions_md)

\* x as a read returns it: without its trailing white space, its carriage returns
\* read as newlines, without its leading newlines
AsRead(x) == strip_chars(read_text(rstrip(x)), {"\n"})

\* no marker of d takes the place of a marker of the description pair, of the
\* instructions pair
DescriptionKept(d) ==
    ~Contains(d.title, MD_DESC_BEGIN) /\ ~Contains(d.description_md, MD_DESC_END)
InstructionsKept(d) ==
    /\ ~Contains(d.title, MD_INSTR_BEGIN)
    /\ ~Contains(d.description_md, MD_INSTR_BEGIN)
    /\ ~Contains(d.instructions_md, MD_INSTR_END)

\* C8: the README.md a write produces contains both marker pairs and a read of the
\* directory takes the marker path; it returns the description as AsRead has it
\* when the title has no description begin marker and the description no
\* description end marker, and the instructions as AsRead has them when neither
\* title nor description has an instructions begin marker and the instructions
\* have no instructions end marker.
C8_ReadmeRoundTrip ==
    ReadAfterWrite =>
        /\ IsOk(ret)
        /\ HasBothPairs(ReadmeRead)
        /\ HasBothPairs(read_text(ReadmeRead))
        /\ DescriptionKept(Written) => ret[2].description_md = AsRead(Written.description_md)
        /\ InstructionsKept(Written) => ret[2].instructions_md = AsRead(Written.instructions_md)

\* a description with blank lines before it, white space after it and a leading
\* space, and instructions that begin with a tab, written under a title that holds
\* end markers, have been read back
C8_Witness ==
    /\ ReadAfterWrite
    /\ Contains(Written.title, MD_DESC_END)
    /\ Written.description_md = "\n\n x \n\t"
    /\ Written.instructions_md = "\tx\n"
    /\ IsOk(ret)
    /\ ret[2].description_md = " x"
    /\ ret[2].instructions_md = "\tx"

Parsed == call[1] = "_parse_readme"

\* C9: when the text has a complete description or instructions marker pair, each
\* part that has its pair is the text between its first begin marker and the first
\* end marker after it without the newlines at its ends, the part without a pair
\* is the empty string, and neither the headings nor the whole text are used.
C9_MarkerPrecedence ==
    Parsed /\ ( \/ HasPair(call[2], MD_DESC_BEGIN, MD_DESC_END)
                \/ HasPair(call[2], MD_INSTR_BEGIN, MD_INSTR_END) )
        => ret = << IF HasPair(call[2], MD_DESC_BEGIN, MD_DESC_END)
                    THEN strip_chars(Enclosed(call[2], MD_DESC_BEGIN, MD_DESC_END), {"\n"})
                    ELSE "",
                    IF HasPair(call[2], MD_INSTR_BEGIN, MD_INSTR_END)
                    THEN strip_chars(Enclosed(call[2], MD_INSTR_BEGIN, MD_INSTR_END), {"\n"})
                    ELSE "" >>

\* a text that starts with a Printing heading and has the description pair alone,
\* with blank lines around the enclosed text, has been parsed
C9_Witness ==
    /\ Parsed
    /\ call[2] = "## PRINTING \n" \o MD_DESC_BEGIN \o "\n b\n\n" \o MD_DESC_END
    /\ ret = <<" b", "">>

\* the indexes at which the lines of the text start, and the index at which the
\* line that starts at a ends
LineStarts(text) == {0} \cup {j + 1 : j \in Occurrences(text, "\n")}
LineEnd(text, a) == IF find(text, "\n", a) = -1 THEN Len(text) ELSE find(text, "\n", a)
\* the line that starts at a is a level-2 heading with the words of one of the patterns
IsHeadingLine(text, a) ==
    \E k \in DOMAIN _PRINT_INSTR_HEADINGS :
        MatchAt(Slice(text, a, LineEnd(text, a)), 0, _PRINT_INSTR_HEADINGS[k]) # -1

\* C10 as stated: a text without a marker pair that has a heading line is split at
\* one: the description is the trimmed text before the heading's line and the
\* instructions are the trimmed text after it; a text without a marker pair and
\* without a heading line is the description, trimmed, and the instructions are empty.
C10_SplitAtHeadingLine ==
    Parsed /\ ~HasPair(call[2], MD_DESC_BEGIN, MD_DESC_END)
           /\ ~HasPair(call[2], MD_INSTR_BEGIN, MD_INSTR_END)
        => IF \E a \in LineStarts(call[2]) : IsHeadingLine(call[2], a)
           THEN \E a \in LineStarts(call[2]) :
                    /\ IsHeadingLine(call[2], a)
                    /\ ret = << strip(Slice(call[2], 0, a)),
                                strip(Slice(call[2], Min({LineEnd(call[2], a) + 1, Len(call[2])}),
                                            Len(call[2]))) >>
           ELSE ret = <<strip(call[2]), "">>

----------------------------------------------------------------------------
(* The write mode of the local backend *)

\* C11 as stated, for the local backend: a write in update mode requires that the
\* directory named by the locator exists and does not bring a directory that did
\* not exist into existence.
C11_UpdateCreatesNoDirectory ==
    call[1] = "write" /\ call[4] = "update" /\ Resolve(call[3]) \notin InitialFs.dirs
        => ~IsOk(ret) /\ Resolve(call[3]) \notin fs.dirs

----------------------------------------------------------------------------
(* Writes to a directory that has been written to *)

RewriteFiles ==
    {FileAsset(<<"a.stl">>, Some(<<"/", "s", "x">>), None, None, "model", None),
     FileAsset(<<"a.stl">>, Some(<<"/", "s", "y">>), None, None, "model", None),
     FileAsset(<<"b.scad">>, Some(<<"x">>), None, None, "source", None),
     FileAsset(<<"d.stl">>, None, None, Some(StaleHash), "model", None)}
RewriteImages == {<<>>, <<ImageAsset(<<"p.png">>, Some(<<"/", "s", "y">>), None, None, None)>>}

\* the Designs written first
RewriteDesigns ==
    {Design("Demo", d, "i", <<>>, <<>>, lic, None, files, images, <<>>, None, None, None,
            <<>>) :
        d \in {"d", "\n x \n"}, lic \in {None, Some(CC_BY)},
        files \in SeqsUpTo(RewriteFiles, MaxRewriteAssets), images \in RewriteImages}

\* d with another title and another license, with the assets as they are given and
\* with the asset objects a write of d has changed
Changed(d, left) ==
    {[base EXCEPT !.title = "Demo 2",
                  !.license = IF d.license = Some(CC_BY) THEN Some(CC_BY_SA) ELSE Some(CC_BY)] :
        base \in {d, left}}

\* a write after the first write; the call keeps the call made before it, what that
\* returned and the file system it left
WriteAfter(design, locator, mode, kind) ==
    LET w == write(fs, design, locator, mode)
    IN  /\ call' = <<"write", design, locator, mode, <<call, ret, fs>>, kind>>
        /\ ret' = w[1]
        /\ fs' = w[2]
        /\ UNCHANGED <<licVars, netVars>>

FirstWritten == call[1] = "write" /\ Len(call) = 4 /\ IsOk(ret)

\* plugin.write(design, locator, mode=mode) once more with the same Design object
LocalWriteAgain ==
    /\ FirstWritten
    /\ \E mode \in Modes :
        WriteAfter(write_leaves(InitialFs, call[2], call[3]), call[3], mode, "again")

\* plugin.write(design2, locator, mode="update") after a write in create mode
LocalUpdate ==
    /\ FirstWritten
    /\ call[4] = "create"
    /\ \E design2 \in Changed(call[2], write_leaves(InitialFs, call[2], call[3])) :
        WriteAfter(design2, call[3], "update", "update")

\* plugin.write(plugin.read(locator), locator, mode=mode) after the first write
LocalWriteBack ==
    /\ call[1] = "read" /\ IsOk(ret)
    /\ call[3][1] = "write" /\ Len(call[3]) = 4 /\ call[3][3] = call[2]
    /\ \E mode \in Modes : WriteAfter(ret[2], call[2], mode, "back")

NextRewrite ==
    LocalWrite(RewriteDesigns) \/ LocalWriteAgain \/ LocalUpdate \/ LocalWriteBack \/ LocalRead

SpecRewrite == Init /\ [][NextRewrite]_vars

\* the files under the directory root with their content
Under(fsys, root) ==
    [p \in {q \in DOMAIN fsys.files : SubSeq(q, 1, Len(root)) = root} |-> fsys.files[p]]

\* a read of the directory after the write of kind kind
ReadAfter(kind) ==
    call[1] = "read" /\ call[3][1] = "write" /\ Len(call[3]) = 6 /\ call[3][6] = kind
        /\ call[3][3] = call[2]

\* C12: after a Design was written to a directory in create mode, a write in update
\* mode of a Design with another license and another title to the same directory
\* returns the same root path, a read then returns the new license key and title,
\* and the update has made no directory and no file under the root that was not
\* there after the first write.
C12_LocalUpdate ==
    ReadAfter("update") =>
        /\ call[4] = call[3][5][2]
        /\ IsOk(ret)
        /\ ret[2].title = call[3][2].title
        /\ LicenseKey(ret[2]) = LicenseKey(call[3][2])
        /\ fs.dirs = call[3][5][3].dirs
        /\ DOMAIN fs.files = DOMAIN call[3][5][3].files

\* a Design with a license and two files written in create mode has been updated
\* with another license and title, and read back
C12_Witness ==
    /\ ReadAfter("update")
    /\ call[3][5][1][4] = "create"
    /\ Len(call[3][2].files) = 2
    /\ call[3][5][1][2].license = Some(CC_BY)
    /\ call[3][5][1][2].title = "Demo"
    /\ IsOk(ret)
    /\ LicenseKey(ret[2]) = Some("CC-BY-SA-4.0")
    /\ ret[2].title = "Demo 2"

\* a write with the Design object of the first write, or with the Design read
\* after the first write
Repeated == call[1] = "write" /\ Len(call) = 6 /\ call[6] \in {"again", "back"}

\* C19 as stated: writing the same Design to the same directory twice in a row, or
\* writing back what was read from it, does not raise and leaves every file under
\* the root with the content it had after the first write.
C19_RepeatedWriteSameContent ==
    Repeated => IsOk(ret) /\ Under(fs, Resolve(call[3])) = Under(call[5][3], Resolve(call[3]))

\* the directory written to is the working directory, or the working directory has
\* no file files/<filename> or images/<filename> for an asset of d
NoStrayAsset(d, root, fsys) ==
    \/ root = Cwd
    \/ /\ \A i \in DOMAIN d.files : Cwd \o <<"files">> \o d.files[i].filename \notin DOMAIN fsys.files
       /\ \A i \in DOMAIN d.images : Cwd \o <<"images">> \o d.images[i].filename \notin DOMAIN fsys.files

\* no two file assets of d have the same filename
OwnFilenames(d) ==
    \A i, j \in DOMAIN d.files : d.files[i].filename = d.files[j].filename => i = j

\* the Design written back came out of the read as it went into the first write:
\* its assets had readable sources, and the read returned the description and the
\* instructions written
ReadAsWritten(first, r) ==
    /\ Readable(first)
    /\ r.description_md = first.description_md
    /\ r.instructions_md = first.instructions_md

\* C19: a repeated write does not raise, also when the source of an asset is its
\* destination file; it leaves every file under the root with the content it had
\* after the first write when no stray asset file is in the working directory, the
\* file assets have filenames of their own and, for a Design written back, the
\* Design came out of the read as it went into the first write.
C19_RepeatedWrite ==
    Repeated =>
        /\ IsOk(ret)
        /\ (/\ NoStrayAsset(call[2], Resolve(call[3]), call[5][3])
            /\ OwnFilenames(call[2])
            /\ (call[6] = "back" => ReadAsWritten(call[5][1][3][2], call[2])))
            => Under(fs, Resolve(call[3])) = Under(call[5][3], Resolve(call[3]))

\* a Design with a file has been written to the working directory twice, the
\* second time with the file under files/ as the source of the asset
C19_Witness ==
    /\ Repeated /\ call[6] = "again"
    /\ call[3] = <<>>
    /\ Len(call[2].files) = 2
    /\ call[2].files[1].path = Some(<<"files", "a.stl">>)
    /\ OwnFilenames(call[2])
    /\ IsOk(ret)
    /\ fs = call[5][3]

----------------------------------------------------------------------------
(* Reading a directory whose metadata.json was not written by write *)

MetadataLicenses ==
    {<<>>, << <<"license", JNull>> >>, << <<"license", JStr("not-an-object")>> >>,
     << <<"license", JStr("")>> >>, << <<"license", JList(<<JStr("CC0-1.0")>>)>> >>,
     << <<"license", JDict(<< <<"key", JStr("CC0-1.0")>> >>)>> >>,
     << <<"license", JDict(<< <<"name", JStr("CC0")>> >>)>> >>,
     << <<"license", JDict(<< <<"key", JStr("CC0-1.0")>>, <<"spdx", JStr("CC0-1.0")>> >>)>> >>}
MetadataTitles == {<<>>, << <<"title", JStr("T")>> >>}
MetadataFiles ==
    {<<>>, << <<"files", JList(<<>>)>> >>, << <<"files", JNull>> >>,
     << <<"files", JDict(<<>>)>> >>,
     << <<"files", JList(<<JDict(<< <<"filename", JStr(<<"a.stl">>)>> >>)>>)>> >>,
     << <<"files", JList(<<JDict(<< <<"path", JStr(<<"files", "a.stl">>)>> >>)>>)>> >>,
     << <<"files", JList(<<JStr("a.stl")>>)>> >>}

\* the documents found in metadata.json: objects, and a list
MetadataDocs ==
    {JDict(t \o lic \o files) : t \in MetadataTitles, lic \in MetadataLicenses,
                                files \in MetadataFiles}
        \cup {JList(<<>>)}

\* a directory with a metadata.json is put where the locator points
PutMetadata ==
    /\ call = NoCall
    /\ \E locator \in Locators, doc \in MetadataDocs :
        /\ call' = <<"put", locator, doc>>
        /\ fs' = [fs EXCEPT !.dirs = ensure_dir(@, Resolve(locator)),
                            !.files = DictSet(@, Join(Resolve(locator), <<"metadata.json">>),
                                              json_dumps(doc))]
    /\ UNCHANGED <<licVars, netVars, ret>>

NextMetadata == PutMetadata \/ LocalRead

SpecMetadata == Init /\ [][NextMetadata]_vars

\* the metadata.json of the directory read
MetadataRead == Join(Resolve(call[2]), <<"metadata.json">>)

\* C18: a read raises ValidationError when metadata.json is missing under the root;
\* when metadata.json is there and Design.from_json raises on it, as it does with
\* TypeError on a license that is a string, the read raises that error; in
\* neither case does it return a Design.
C18_ReadErrors ==
    call[1] = "read" =>
        /\ MetadataRead \notin DOMAIN fs.files => ret = Raise("ValidationError")
        /\ MetadataRead \in DOMAIN fs.files /\ ~IsOk(from_json(fs.files[MetadataRead]))
            => ret = from_json(fs.files[MetadataRead])
        /\ /\ MetadataRead \in DOMAIN fs.files
           /\ json_loads(fs.files[MetadataRead])[1] = "dict"
           /\ Item(json_loads(fs.files[MetadataRead])[2], "license", JNull)
                  = JStr("not-an-object")
           => ret = Raise("TypeError")

\* a directory whose metadata.json has a title and a string for the license has
\* been read
C18_Witness ==
    /\ call[1] = "read"
    /\ call[3][1] = "put" /\ call[3][2] = call[2]
    /\ call[3][3] = JDict(<< <<"title", JStr("T")>>, <<"license", JStr("not-an-object")>> >>)
    /\ ret = Raise("TypeError")

----------------------------------------------------------------------------
(* README texts with several headings *)

HeadingLines ==
    {"## Printing", "##instructions ", "## Print Settings", "## PRINT  INSTRUCTIONS", "a b",
     "", "## Other"}

\* "\n".join(lines)
RECURSIVE JoinLines(_)
JoinLines(lines) ==
    IF lines = <<>> THEN ""
    ELSE IF Len(lines) = 1 THEN lines[1]
    ELSE lines[1] \o "\n" \o JoinLines(Tail(lines))

HeadingTexts == {JoinLines(lines) : lines \in SeqsUpTo(HeadingLines, MaxHeadingLines)}

\* _parse_readme(text) for a text of lines; one text is parsed in a behaviour
ParseHeadings ==
    /\ call = NoCall
    /\ \E text \in HeadingTexts :
        /\ call' = <<"_parse_readme", text>>
        /\ ret' = _parse_readme(text)
    /\ UNCHANGED <<licVars, fsVars, netVars>>

SpecHeadings == Init /\ [][ParseHeadings]_vars

\* the headings in the order of their priority
HeadingPriority ==
    << <<"print", "instructions">>, <<"print", "settings">>, <<"instructions">>,
       <<"printing">> >>
\* the starts of the lines of the text that are the heading k
HeadingsOf(text, k) ==
    {a \in LineStarts(text) :
        MatchAt(Slice(text, a, LineEnd(text, a)), 0, HeadingPriority[k]) # -1}
\* the headings the text has
HeadingsIn(text) == {k \in DOMAIN HeadingPriority : HeadingsOf(text, k) # {}}

\* C20: a text without markers that has headings is split at one heading alone: the
\* earliest line that is the heading first in the priority order among the
\* headings the text has, wherever the other headings are; the description is the
\* trimmed text before that line and the instructions are the trimmed text after it.
C20_HeadingPriority ==
    Parsed /\ ~Contains(call[2], "<!--") /\ HeadingsIn(call[2]) # {} =>
        LET a == Min(HeadingsOf(call[2], Min(HeadingsIn(call[2]))))
        IN  ret = << strip(Slice(call[2], 0, a)),
                     strip(Slice(call[2], Min({LineEnd(call[2], a) + 1, Len(call[2])}),
                                 Len(call[2]))) >>

\* a text with a Printing heading, then an Instructions heading, then a second
\* Instructions heading has been split at the first Instructions heading
C20_Witness ==
    /\ Parsed
    /\ call[2] = "## Printing\n##instructions \n##instructions "
    /\ ret = <<"## Printing", "##instructions">>

----------------------------------------------------------------------------
(* ThingiversePlugin.write as a state machine *)

\* the token the configuration yields, if any
Tokens == {None, Some("t0k")}

\* ThingiversePlugin(): the license mappings are registered, then ThingiverseAPI()
\* raises when there is no token
NewThingiversePlugin ==
    /\ call = NoCall
    /\ \E token \in Tokens :
        /\ call' = <<"ThingiversePlugin", token>>
        /\ ret' = IF IsNone(token) \/ Val(token) = "" THEN Raise("AuthenticationError")
                  ELSE Ok("plugin")
    /\ LET t == register_license_mappings(Tables) IN
        /\ PLATFORM_OUTBOUND' = t.out
        /\ PLATFORM_INBOUND' = t.inb
    /\ regLog' = regLog \o HookCalls
    /\ UNCHANGED <<CANONICAL, catalogLog, nOps, lastOp, afterFirst, fsVars, netVars>>

Answer(status, body) == <<"answer", status, body>>
NoBody == <<"text", "">>

\* what the platform does with create_thing and with update_thing
CreateAnswers == {Answer(200, JDict(<< <<"id", JStr("7")>> >>)), Answer(401, NoBody),
                  Answer(500, NoBody)}
UpdateAnswers == {Answer(200, JDict(<< <<"id", JStr("42")>> >>)), Answer(401, NoBody),
                  Answer(404, NoBody)}

UploadFields == JDict(<< <<"key", JStr("k")>>, <<"success_action_redirect", JStr("https://t/done")>> >>)
\* what the platform does with initiate_file_upload: it gives the target and the
\* fields, the fields without redirect, no target, no fields, a text; it refuses
\* the token, fails, or cannot be reached
InitiateAnswers ==
    {Answer(200, JDict(<< <<"action", JStr("https://s3/up")>>, <<"fields", UploadFields>> >>)),
     Answer(200, JDict(<< <<"action", JStr("https://s3/up")>>,
                          <<"fields", JDict(<< <<"key", JStr("k")>> >>)>> >>)),
     Answer(200, JDict(<< <<"fields", UploadFields>> >>)),
     Answer(200, JDict(<< <<"action", JStr("https://s3/up")>> >>)),
     Answer(200, <<"text", "queued">>),
     Answer(401, NoBody),
     Answer(500, NoBody),
     <<"error", "ConnectionError">>}
TransferAnswers == {Answer(204, NoBody), Answer(403, NoBody)}
FinalizeAnswers == {Answer(200, NoBody), Answer(401, NoBody)}

\* no request is made for the asset
NoAnswers == <<Answer(500, NoBody), Answer(403, NoBody), Answer(401, NoBody)>>

\* what the platform does with the requests of one asset; answers to requests that
\* cannot follow are left out
UploadAnswers ==
    {<<i, t, f>> \in InitiateAnswers \X TransferAnswers \X FinalizeAnswers :
        /\ Initiated(_post(i))[1] = "skip" => t = NoAnswers[2]
        /\ ( \/ Initiated(_post(i))[1] = "skip"
             \/ ~IsOk(raise_for_status(t))
             \/ ~Truthy(Initiated(_post(i))[4]) ) => f = NoAnswers[3]}

RemoteFiles ==
    {FileAsset("a.stl", Some(<<"/", "s", "x">>), None, None, "model", None),
     FileAsset("m.stl", None, None, None, "model", None)}
RemoteLicenses ==
    {None, Some(CC_BY_SA), Some(License("cc-by-sa", None, None)),
     Some(License("custom", Some("Custom"), None))}

RemoteImages == {ImageAsset("p.png", Some(<<"/", "s", "y">>), None, None, None)}
\* the assets with their place in the list put before their filenames
Numbered(assets) ==
    [i \in DOMAIN assets |-> [assets[i] EXCEPT !.filename = ToString(i) \o "-" \o @]]

\* the Designs written to the platform, of up to MaxRemoteAssets assets
RemoteDesigns ==
    {Design(t, "d ", "", <<"a", " ">>, <<>>, lic, None, Numbered(files), Numbered(images), <<>>,
            None, None, None, <<>>) :
        t \in {"Bracket", "", " \n"}, lic \in RemoteLicenses,
        <<files, images>> \in
            {l \in SeqsUpTo(RemoteFiles, MaxRemoteAssets)
                       \X SeqsUpTo(RemoteImages, MaxRemoteAssets) :
                Len(l[1]) + Len(l[2]) <= MaxRemoteAssets}}

\* the answers to the requests of the file assets: those of an asset without a
\* readable file are not used
AnswersFor(files) ==
    {a \in [DOMAIN files -> UploadAnswers \cup {NoAnswers}] :
        \A i \in DOMAIN files :
            a[i] = NoAnswers <=> ~(HasPath(files[i]) /\ Resolve(Val(files[i].path)) \in DOMAIN fs.files)}

\* the locators given to a write in create mode: that of an entity, and none
RemoteLocators == {" 42 ", ""}

\* plugin.write(design, locator, mode=mode); one write is made in a behaviour
RemoteWrite ==
    /\ call[1] = "ThingiversePlugin" /\ IsOk(ret)
    /\ \E design \in RemoteDesigns, mode \in {"create", "update", "replace"} :
       \E locator \in IF mode = "create" THEN RemoteLocators ELSE {" 42 "} :
       \E entity \in IF mode = "update" THEN UpdateAnswers ELSE CreateAnswers :
       \E answers \in AnswersFor(design.files) :
        LET w == thingiverse_write(fs, design, locator, mode, entity, answers)
        IN  /\ call' = <<"thingiverse_write", design, locator, mode>>
            /\ ret' = w[1]
            /\ sent' = sent \o w[2]
    /\ UNCHANGED <<licVars, fsVars>>

NextRemote == NewThingiversePlugin \/ RemoteWrite

SpecRemote == Init /\ [][NextRemote]_vars

\* a write to the platform has been made
RemoteWritten == call[1] = "thingiverse_write"
\* the title of the Design is empty or whitespace only
BlankTitle(design) == strip(design.title) = ""

\* C13: a write in create mode of a Design whose title is empty or consists of
\* whitespace only raises ValidationError, and no request is sent to the platform
C13_BlankTitle ==
    (RemoteWritten /\ call[4] = "create" /\ BlankTitle(call[2]))
        => (ret = Raise("ValidationError") /\ sent = <<>>)

\* a Design with a whitespace title and a readable file asset was written in create mode
C13_Witness ==
    /\ RemoteWritten /\ call[4] = "create"
    /\ call[2].title = " \n" /\ Len(call[2].files) > 0 /\ HasPath(call[2].files[1])
    /\ ret = Raise("ValidationError") /\ sent = <<>>

\* payload.get(key), None when the payload has no such key
RECURSIVE PayloadGet(_, _)
PayloadGet(payload, key) ==
    IF payload = <<>> THEN None
    ELSE IF Head(payload)[1] = key THEN Some(Head(payload)[2])
    ELSE PayloadGet(Tail(payload), key)

\* the license of the Design is absent or, normalized, has no outbound mapping for
\* the platform
NoOutboundLicense(design) ==
    \/ IsNone(design.license)
    \/ IsNone(map_for_platform(normalize_license(<<"License", Val(design.license)>>),
                                "thingiverse"))

\* the create_thing or update_thing request of the write, when it was sent
EntityRequest == sent[1][1]

\* C14: a write, in create mode or in update mode, of a Design whose license is
\* absent or has no outbound mapping sends "cc" as the license of the entity
C14_DefaultLicense ==
    (RemoteWritten /\ call[4] \in {"create", "update"} /\ NoOutboundLicense(call[2])
        /\ sent # <<>>)
        => PayloadGet(EntityRequest[3], "license") = Some("cc")

\* the kind of the request of an entry of sent, and what the platform answered
RequestKind(entry) == entry[1][1]
Refused(answer) == answer[1] = "error" \/ answer[2] >= 400

\* the initiate step raises on this answer, or the answer lacks the upload target
\* or the form fields
InitiateFailed(answer) ==
    \/ Refused(answer)
    \/ answer[3][1] # "dict"
    \/ "action" \notin Keys(answer[3][2])
    \/ "fields" \notin Keys(answer[3][2])

\* the entries of sent that are the initiate request of an asset whose step 1 failed
FailedInitiations ==
    {k \in DOMAIN sent :
        RequestKind(sent[k]) = "initiate_file_upload" /\ InitiateFailed(sent[k][2])}
\* a transfer or finalize request of the write was refused
UploadRefused ==
    \E k \in DOMAIN sent :
        RequestKind(sent[k]) \in {"transfer", "finalize"} /\ Refused(sent[k][2])

\* the file assets of the written Design that have a readable file
Uploadable ==
    {i \in DOMAIN call[2].files :
        HasPath(call[2].files[i]) /\ Resolve(Val(call[2].files[i].path)) \in DOMAIN fs.files}
\* every file asset that has a readable file was processed
AllProcessed ==
    Cardinality({k \in DOMAIN sent : RequestKind(sent[k]) = "initiate_file_upload"})
        = Cardinality(Uploadable)
\* the identifier write works with: the locator in update mode, the id of the
\* created entity in create mode
WorkingId ==
    IF call[4] = "update" THEN strip(call[3])
    ELSE PyStrOf(Item(sent[1][2][3][2], "id", JNull))
\* no transfer and no finalize request follows the initiate request sent[k]
NothingForAsset(k) == k = Len(sent) \/ RequestKind(sent[k + 1]) = "initiate_file_upload"

\* C15 as stated: when step 1 fails for a file asset, no transfer and no finalize
\* request is made for it, every later file asset is processed and write returns
\* the working identifier
C15_InitiationSkipped ==
    RemoteWritten =>
        \A k \in FailedInitiations :
            NothingForAsset(k) /\ AllProcessed /\ ret = Ok(WorkingId)

\* C15: when step 1 fails for a file asset, no transfer and no finalize request is
\* made for it and the loop goes on with the next asset; unless a transfer or
\* finalize request of a later asset is refused, every file asset is processed and
\* write returns the working identifier
C15_InitiationSkippedUnlessRefused ==
    RemoteWritten =>
        \A k \in FailedInitiations :
            /\ NothingForAsset(k)
            /\ ~UploadRefused => (AllProcessed /\ ret = Ok(WorkingId))

\* step 1 could not reach the platform for the first asset; the second asset was
\* initiated, transferred and finalized, and write returned the identifier
C15_Witness ==
    /\ RemoteWritten /\ Len(sent) = 5
    /\ sent[2][2] = <<"error", "ConnectionError">>
    /\ RequestKind(sent[3]) = "initiate_file_upload"
    /\ RequestKind(sent[4]) = "transfer" /\ RequestKind(sent[5]) = "finalize"
    /\ ret = Ok("7")

\* the answer carries a non-success status
NonSuccess(answer) == answer[1] = "answer" /\ answer[2] >= 400

\* C16: when the transfer or the finalize request of a file asset is answered with
\* a non-success status, write raises and returns no identifier, and no request
\* is made after that one
C16_UploadFailureAborts ==
    RemoteWritten =>
        \A k \in DOMAIN sent :
            (RequestKind(sent[k]) \in {"transfer", "finalize"} /\ NonSuccess(sent[k][2]))
                => (ret[1] = "raise" /\ k = Len(sent))

\* the transfer of the first of two assets with readable files was answered 403:
\* write raised after three requests
C16_Witness ==
    /\ RemoteWritten /\ Cardinality(Uploadable) = 2
    /\ Len(sent) = 3 /\ RequestKind(sent[3]) = "transfer" /\ sent[3][2][2] = 403
    /\ ret = Raise("HTTPError")

\* C17: a create_thing, update_thing or initiate_file_upload request answered 401
\* is the last request of the write, and AuthenticationError reaches the caller
C17_AuthenticationAborts ==
    RemoteWritten =>
        \A k \in DOMAIN sent :
            ( /\ RequestKind(sent[k]) \in {"create_thing", "update_thing", "initiate_file_upload"}
              /\ sent[k][2] = Answer(401, NoBody) )
                => (k = Len(sent) /\ ret = Raise("AuthenticationError"))

----------------------------------------------------------------------------
(* Reading a directory whose metadata.json, README.md and files were put there *)

\* the file assets metadata.json has: without a path, with a path relative to the
\* root, with an absolute path, with the path of a file that is not there, and
\* with the path of a directory
StoredFiles ==
    {FileAsset(<<"a.stl">>, None, None, None, "model", None),
     FileAsset(<<"a.stl">>, Some(<<"files", "a.stl">>), None, Some(StaleHash), "model", None),
     FileAsset(<<"x.stl">>, Some(<<"/", "s", "x">>), None, Some(StaleHash), "model", None),
     FileAsset(<<"b.stl">>, Some(<<"files", "b.stl">>), None, Some(StaleHash), "model", None),
     FileAsset(<<"d.stl">>, Some(<<"files">>), None, Some(StaleHash), "model", None)}
\* the description and the instructions metadata.json has
StoredTexts == {<<"", "">>, <<"stored d", "stored i">>}
\* README.md: none; one that write rendered; texts without markers, with and
\* without a heading; an empty one
StoredReadmes ==
    {None, Some(_render_readme("T", "readme d", "")), Some("readme text\r\n"),
     Some("readme d\n## Print Instructions\nreadme i"), Some("")}

\* a directory with metadata.json, with or without README.md and files/a.stl, is
\* put where the locator points
PutDirectory ==
    /\ call = NoCall
    /\ \E locator \in Locators, texts \in StoredTexts, readme \in StoredReadmes,
          files \in SeqsUpTo(StoredFiles, MaxStoredAssets), present \in BOOLEAN :
        LET root == Resolve(locator)
            design == Design("T", texts[1], texts[2], <<>>, <<>>, None, None, files, <<>>, <<>>,
                             None, None, None, <<>>)
            dirs == ensure_dir(ensure_dir(fs.dirs, root), Join(root, <<"files">>))
            f1 == DictSet(fs.files, Join(root, <<"metadata.json">>), to_json(design))
            f2 == IF IsNone(readme) THEN f1
                  ELSE DictSet(f1, Join(root, <<"README.md">>), Val(readme))
            f3 == IF present THEN DictSet(f2, Join(root, <<"files", "a.stl">>), "abc") ELSE f2
        IN  /\ call' = <<"put", locator, asdict(design)>>
            /\ fs' = [files |-> f3, dirs |-> dirs]
    /\ UNCHANGED <<licVars, netVars, ret>>

NextStored == PutDirectory \/ LocalRead

SpecStored == Init /\ [][NextStored]_vars

\* a read has returned a Design
ReadReturned == call[1] = "read" /\ IsOk(ret)
\* the directory read, its README.md, and the Design its metadata.json stores
RootRead == Resolve(call[2])
ReadmeRead_path == Join(RootRead, <<"README.md">>)
StoredDesign == from_json(fs.files[MetadataRead])[2]

\* C21: when README.md is in the directory, the description and the instructions
\* of the Design read are the two values parsed from it, whatever metadata.json
\* has for them; when it is not, they are the values of metadata.json
C21_ReadmeOverrides ==
    ReadReturned =>
        IF ReadmeRead_path \in DOMAIN fs.files
        THEN <<ret[2].description_md, ret[2].instructions_md>>
                 = _parse_readme(read_text(fs.files[ReadmeRead_path]))
        ELSE /\ ret[2].description_md = StoredDesign.description_md
             /\ ret[2].instructions_md = StoredDesign.instructions_md

\* metadata.json has a description and instructions, README.md has a description
\* between markers and empty instructions: the instructions read are empty
C21_Witness ==
    /\ ReadReturned
    /\ ReadmeRead_path \in DOMAIN fs.files
    /\ StoredDesign.description_md = "stored d" /\ StoredDesign.instructions_md = "stored i"
    /\ ret[2].description_md = "readme d" /\ ret[2].instructions_md = ""

\* the path read resolves the file asset f of the Design it returns to
ResolvedPath(f) ==
    IF IsAbsolute(Val(f.path)) THEN Val(f.path) ELSE Resolve(Join(RootRead, Val(f.path)))
\* the hash of the file asset is that of the bytes at its resolved path
FreshHash(f) == f.sha256 = Some(sha256_file(fs, ResolvedPath(f)))

WriteReturned == call[1] = "write" /\ IsOk(ret)
Recorded == from_json(fs.files[Join(ret[2], <<"metadata.json">>)])[2]
\* the place of the asset a under the directory dir of the root
PlaceUnder(dir, a) == <<dir>> \o a.filename
\* the hash recorded for the file asset f is that of the bytes at its place
HashOfStored(f) ==
    /\ Join(ret[2], PlaceUnder("files", f)) \in DOMAIN fs.files
    /\ f.sha256 = Some(sha256_file(fs, Join(ret[2], PlaceUnder("files", f))))
\* the source of the asset a can be read when the write starts
SourceReadable(a) == HasPath(a) /\ Resolve(Val(a.path)) \in DOMAIN InitialFs.files
\* no later file asset of d with a readable source has the filename of d.files[i]
LastOfName(d, i) ==
    \A j \in DOMAIN d.files :
        (j > i /\ SourceReadable(d.files[j])) => d.files[j].filename # d.files[i].filename

\* C23 as stated: after a write returns, every asset recorded in metadata.json has the
\* path files/<filename> or images/<filename>, and every FileAsset recorded has the
\* hash of the bytes stored at files/<filename>, for every Design
C23_RecordedAssets ==
    WriteReturned =>
        /\ \A i \in DOMAIN Recorded.files :
            /\ Recorded.files[i].path = Some(PlaceUnder("files", Recorded.files[i]))
            /\ HashOfStored(Recorded.files[i])
        /\ \A i \in DOMAIN Recorded.images :
            Recorded.images[i].path = Some(PlaceUnder("images", Recorded.images[i]))

\* C23: after a write of a Design with plain filenames returns, an asset whose source
\* was readable is recorded with the path files/<filename> or images/<filename>, and
\* such a FileAsset with the hash of the bytes stored at files/<filename> if no later
\* such FileAsset has its filename; an asset whose source was not readable is
\* recorded with the path and the hash it was given with
C23_RecordedReadableAssets ==
    (WriteReturned /\ PlainFilenames(call[2])) =>
        /\ Len(Recorded.files) = Len(call[2].files)
        /\ Len(Recorded.images) = Len(call[2].images)
        /\ \A i \in DOMAIN call[2].files :
            IF SourceReadable(call[2].files[i])
            THEN /\ Recorded.files[i].path = Some(PlaceUnder("files", call[2].files[i]))
                 /\ LastOfName(call[2], i) => HashOfStored(Recorded.files[i])
            ELSE Recorded.files[i] = call[2].files[i]
        /\ \A i \in DOMAIN call[2].images :
            IF SourceReadable(call[2].images[i])
            THEN Recorded.images[i].path = Some(PlaceUnder("images", call[2].images[i]))
            ELSE Recorded.images[i] = call[2].images[i]

\* two file assets named a.stl with different sources were written: both are
\* recorded at files/a.stl, the first with the hash of its source, the second
\* with the hash of the bytes stored
C23_Witness ==
    /\ WriteReturned /\ Len(call[2].files) = 2
    /\ Recorded.files[1].path = Some(<<"files", "a.stl">>)
    /\ Recorded.files[2].path = Some(<<"files", "a.stl">>)
    /\ Recorded.files[1].sha256 = Some(<<"sha256", "123">>)
    /\ Recorded.files[2].sha256 = Some(<<"sha256", "456">>)
    /\ HashOfStored(Recorded.files[2])

\* the file asset has a locally readable path
IsUploadable(f) == HasPath(f) /\ Resolve(Val(f.path)) \in DOMAIN fs.files
IsInitiate(entry) == RequestKind(entry) = "initiate_file_upload"
\* the filename an initiate request and a transfer request are made for
InitiateFilename(entry) == entry[1][3][1]
TransferFilename(entry) == entry[1][3]

\* the create_thing or update_thing request is the first request, and the upload
\* requests follow it only if it was not refused
EntityFirst ==
    /\ RequestKind(sent[1]) = (IF call[4] = "create" THEN "create_thing" ELSE "update_thing")
    /\ \A k \in 2..Len(sent) :
        /\ RequestKind(sent[k]) \in {"initiate_file_upload", "transfer", "finalize"}
        /\ ~Refused(sent[1][2])
\* the initiate requests are made for the file assets with a readable path, in the
\* order of the list, each at most once
InListOrder ==
    LET inits == SelectSeq(sent, IsInitiate)
        uploadable == SelectSeq(call[2].files, IsUploadable)
    IN  /\ Len(inits) <= Len(uploadable)
        /\ \A k \in DOMAIN inits : InitiateFilename(inits[k]) = uploadable[k].filename
\* a transfer follows at once the initiate of its asset, which gave a target and
\* fields; a finalize follows at once the transfer of its asset, which succeeded
StepsInOrder ==
    \A k \in DOMAIN sent :
        /\ RequestKind(sent[k]) = "transfer" =>
            /\ k > 1 /\ IsInitiate(sent[k - 1]) /\ ~InitiateFailed(sent[k - 1][2])
            /\ TransferFilename(sent[k]) = InitiateFilename(sent[k - 1])
            /\ sent[k][1][2] = Item(sent[k - 1][2][3][2], "action", JNull)[2]
        /\ RequestKind(sent[k]) = "finalize" =>
            /\ k > 2 /\ RequestKind(sent[k - 1]) = "transfer" /\ ~Refused(sent[k - 1][2])
            /\ IsInitiate(sent[k - 2])

\* C24: the entity request comes before every upload request; the file assets are
\* taken one at a time in list order, each with initiate, transfer, finalize in
\* this order, a transfer only after the asset's initiate gave a target and fields,
\* a finalize only after the asset's transfer succeeded; no request is made for a
\* file asset without a readable path or for an image asset
C24_UploadOrdering ==
    (RemoteWritten /\ sent # <<>>) => (EntityFirst /\ InListOrder /\ StepsInOrder)

\* a Design with a readable file and a readable image was written: the requests
\* are create, initiate, transfer and finalize for the file, none for the image
C24_Witness ==
    /\ RemoteWritten /\ call[4] = "create" /\ ret = Ok("7")
    /\ Len(call[2].files) = 1 /\ Len(call[2].images) = 1
    /\ Resolve(Val(call[2].images[1].path)) \in DOMAIN fs.files
    /\ Len(sent) = 4
    /\ InitiateFilename(sent[2]) = "1-a.stl" /\ TransferFilename(sent[3]) = "1-a.stl"
    /\ RequestKind(sent[4]) = "finalize"

\* C25: the license of the payload of an update is the license the payload of a
\* create has for the same Design
C25_UpdateLicenseAsCreate ==
    (RemoteWritten /\ call[4] = "update" /\ sent # <<>>)
        => PayloadGet(EntityRequest[3], "license") = PayloadGet(CreatePayload(call[2]), "license")

\* the requests of the write of the kind
RequestsOf(kind) == {k \in DOMAIN sent : RequestKind(sent[k]) = kind}
\* the identifier the create_thing request was answered with
CreatedId == PyStrOf(Item(sent[1][2][3][2], "id", JNull))
\* every initiate request is addressed to the entity of the identifier
AddressedTo(thing_id) ==
    \A k \in RequestsOf("initiate_file_upload") :
        sent[k][1][2] = "/things/" \o thing_id \o "/files"

\* the create_thing request of a write in create mode was sent and not refused
Created == RemoteWritten /\ call[4] = "create" /\ sent # <<>> /\ ~Refused(sent[1][2])

\* C26 as stated: a write in create mode whose creation succeeds makes exactly one
\* create_thing request and no update_thing request, addresses every initiate
\* request to the identifier the creation returned, and returns that identifier
C26_CreateAdopts ==
    Created =>
        /\ RequestsOf("create_thing") = {1}
        /\ RequestsOf("update_thing") = {}
        /\ AddressedTo(CreatedId)
        /\ ret = Ok(CreatedId)

\* C26: a write in create mode of a Design with a title that is not blank makes
\* exactly one create_thing request, the first request, and no update_thing
\* request, whatever the locator; when the creation is not refused every
\* initiate request is addressed to the identifier it returned, nothing but that
\* identifier is returned, and it is returned unless a transfer or finalize
\* request is refused
C26_CreateAdoptsUnlessRefused ==
    (RemoteWritten /\ call[4] = "create" /\ ~BlankTitle(call[2])) =>
        /\ RequestsOf("create_thing") = {1}
        /\ RequestsOf("update_thing") = {}
        /\ Refused(sent[1][2]) => (Len(sent) = 1 /\ ~IsOk(ret))
        /\ ~Refused(sent[1][2]) =>
            /\ AddressedTo(CreatedId)
            /\ IsOk(ret) => ret = Ok(CreatedId)
            /\ ~UploadRefused => ret = Ok(CreatedId)

\* a Design was written in create mode with the locator of another entity: its
\* file was initiated under the identifier the creation returned, which write
\* returned
C26_Witness ==
    /\ RemoteWritten /\ call[4] = "create" /\ call[3] = " 42 "
    /\ Len(sent) = 4 /\ sent[2][1][2] = "/things/7/files"
    /\ ret = Ok("7")

----------------------------------------------------------------------------
(* A sync from a directory to another directory *)

\* plugin.write(plugin.read(a), b, mode="create") for a directory a that a write
\* has made and another directory b
LocalSync ==
    /\ call[1] = "read" /\ IsOk(ret)
    /\ call[3][1] = "write" /\ Len(call[3]) = 4 /\ call[3][3] = call[2]
    /\ \E b \in Locators :
        /\ Resolve(b) # Resolve(call[2])
        /\ WriteAfter(ret[2], b, "create", "sync")

NextSync == LocalWrite(RewriteDesigns) \/ LocalRead \/ LocalSync

SpecSync == Init /\ [][NextSync]_vars

\* the write of a sync has been made; the directory read, the Design read from it,
\* and the directory written
Synced == call[1] = "write" /\ Len(call) = 6 /\ call[6] = "sync"
SyncSource == Resolve(call[5][1][2])
SyncRead == call[2]
SyncTarget == Resolve(call[3])
\* the file of the asset a under the directory dir of the target holds the bytes
\* of the file of a in the source
SameBytes(dir, a) ==
    /\ Join(SyncTarget, PlaceUnder(dir, a)) \in DOMAIN fs.files
    /\ fs.files[Join(SyncTarget, PlaceUnder(dir, a))]
           = fs.files[Join(SyncSource, PlaceUnder(dir, a))]

\* C27: after the Design read from a directory that a write made is written to
\* another directory, the files and images of its assets in the source are in the
\* target, with the same bytes
C27_AssetsSurviveSync ==
    Synced =>
        /\ IsOk(ret)
        /\ \A i \in DOMAIN SyncRead.files :
            Join(SyncSource, PlaceUnder("files", SyncRead.files[i])) \in DOMAIN fs.files
                => SameBytes("files", SyncRead.files[i])
        /\ \A i \in DOMAIN SyncRead.images :
            Join(SyncSource, PlaceUnder("images", SyncRead.images[i])) \in DOMAIN fs.files
                => SameBytes("images", SyncRead.images[i])

\* the form fields of the answer to an initiate request, and the finalize callback
\* among them
FieldsOf(entry) == Item(entry[2][3][2], "fields", JNull)
RedirectOf(entry) == Item(FieldsOf(entry)[2], "success_action_redirect", JNull)
\* the transfers of the write that succeeded
Transferred == {k \in RequestsOf("transfer") : ~Refused(sent[k][2])}
\* the request after sent[k] is the finalize request of the asset initiated with
\* sent[k - 1]
FinalizedNext(k) ==
    /\ k < Len(sent)
    /\ Truthy(RedirectOf(sent[k - 1]))
    /\ sent[k + 1][1] = <<"finalize", RedirectOf(sent[k - 1])[2], FieldsOf(sent[k - 1])>>

\* C28 as stated: after every transfer that succeeds, the next request is a finalize
\* request with the same form fields to the callback of the initiate response
C28_TransferredFinalized ==
    RemoteWritten => \A k \in Transferred : FinalizedNext(k)

\* C28: after every transfer that succeeds, if the form fields of the initiate
\* response have a finalize callback, the next request is a finalize request with
\* these form fields to that callback; if they have none, no finalize request is
\* made for the asset
C28_FinalizedIfCallback ==
    RemoteWritten =>
        \A k \in Transferred :
            IF Truthy(RedirectOf(sent[k - 1])) THEN FinalizedNext(k)
            ELSE NothingForAsset(k)

\* two files were transferred; the initiate response of the first had a callback
\* and the file was finalized, that of the second had none: write returned with
\* the second file not finalized
C28_Witness ==
    /\ RemoteWritten /\ Len(sent) = 6 /\ IsOk(ret)
    /\ Transferred = {3, 6}
    /\ sent[4][1] = <<"finalize", "https://t/done", UploadFields>>
    /\ ~Truthy(RedirectOf(sent[5]))

----------------------------------------------------------------------------
(* Writes with a mode that is neither "create" nor "update" *)

UnsupportedModes == {"replace", "", "Create"}

\* plugin.write(design, locator, mode=mode) of the local backend with such a mode
LocalWriteUnsupported ==
    /\ call = NoCall
    /\ \E design \in RewriteDesigns, locator \in Locators, mode \in UnsupportedModes :
        LET w == write(fs, design, locator, mode)
        IN  /\ call' = <<"write", design, locator, mode>>
            /\ ret' = w[1]
            /\ fs' = w[2]
    /\ UNCHANGED <<licVars, netVars>>

NextModes == LocalWriteUnsupported \/ LocalRead

SpecModes == Init /\ [][NextModes]_vars

\* C29: a write of the local backend with a mode other than "create" and "update"
\* raises ValidationError and leaves the file system as it was
C29_UnsupportedMode ==
    (call[1] = "write" /\ call[4] \notin {"create", "update"})
        => (ret = Raise("ValidationError") /\ fs = InitialFs)

\* the same for the remote backend: ValidationError, and no request sent
RemoteUnsupportedMode ==
    (RemoteWritten /\ call[4] \notin {"create", "update"})
        => (ret = Raise("ValidationError") /\ sent = <<>>)

----------------------------------------------------------------------------
(* Writes that fail part of the way *)

NextFailure == LocalWrite(LocalDesigns) \/ NewThingiversePlugin \/ RemoteWrite

SpecFailure == Init /\ [][NextFailure]_vars

\* a write of the local backend has raised
LocalWriteFailed == call[1] = "write" /\ ~IsOk(ret)
\* the copy of the file asset d.files[i] fails: its source is readable and the
\* directory of its destination is not there
CopyFails(d, root, i) ==
    /\ SourceReadable(d.files[i])
    /\ Parent(Join(Join(root, <<"files">>), d.files[i].filename)) \notin fs.dirs
\* the file assets of d copied before a copy failed
CopiedBefore(d, root) ==
    {i \in DOMAIN d.files :
        /\ SourceReadable(d.files[i])
        /\ \A j \in 1..i : ~CopyFails(d, root, j)
        /\ \E j \in DOMAIN d.files : j > i /\ CopyFails(d, root, j)}
\* the copy of d.files[i] is in its place, unless a later copy has the same place
CopyInPlace(d, root, i) ==
    LET place == Join(root, PlaceUnder("files", d.files[i]))
    IN  /\ place \in DOMAIN fs.files
        /\ (\A j \in CopiedBefore(d, root) : j > i => d.files[j].filename # d.files[i].filename)
            => fs.files[place] = InitialFs.files[Resolve(Val(d.files[i].path))]

\* C30: when a transfer or finalize request of a remote write is refused, write
\* raises and returns no identifier, the entity request and the requests of the
\* assets before are the only requests made and none follows the refused one;
\* when a local write raises while copying, the directories it made and the
\* files it copied before are in place and no file that was there is gone
C30_NoRollback ==
    /\ (RemoteWritten /\ UploadRefused) =>
        /\ ret[1] = "raise"
        /\ \A k \in DOMAIN sent :
            /\ RequestKind(sent[k]) \in {"create_thing", "update_thing", "initiate_file_upload",
                                         "transfer", "finalize"}
            /\ (RequestKind(sent[k]) \in {"transfer", "finalize"} /\ Refused(sent[k][2]))
                => k = Len(sent)
        /\ RequestKind(sent[1]) \in {"create_thing", "update_thing"} /\ ~Refused(sent[1][2])
    /\ LocalWriteFailed =>
        /\ \A p \in DOMAIN InitialFs.files : p \in DOMAIN fs.files
        /\ {Resolve(call[3]), Join(Resolve(call[3]), <<"files">>),
            Join(Resolve(call[3]), <<"images">>)} \subseteq fs.dirs
        /\ \A i \in CopiedBefore(call[2], Resolve(call[3])) :
            CopyInPlace(call[2], Resolve(call[3]), i)

\* a Design with the files a.stl and sub/c.stl was written to /out: the copy of
\* the second raised, the copy of the first is in /out/files, and there is no
\* metadata.json
C30_Witness ==
    /\ LocalWriteFailed /\ ret = Raise("FileNotFoundError")
    /\ call[3] = <<"/", "out">>
    /\ CopiedBefore(call[2], Resolve(call[3])) = {1}
    /\ fs.files[<<"/", "out", "files", "a.stl">>] = "123"
    /\ <<"/", "out", "metadata.json">> \notin DOMAIN fs.files

====
